---- MODULE Spec2Model ----
(***************************************************************************)
(* Model of blink's modal editing and command-routing core: the keybinding *)
(* table (crates/tui/src/keys.rs), the event-to-command mapping            *)
(* (crates/tui/src/events.rs), the three regions (url_input.rs, editor.rs, *)
(* side_panel.rs) and the command dispatcher (crates/state/src/lib.rs).    *)
(*                                                                         *)
(* Text is a sequence of one-character strings; "\n" is the line break.    *)
(***************************************************************************)
EXTENDS Integers, Sequences, FiniteSets, TLC

VARIABLES
    overrides,      \* the add_binding calls made on BlinkState.key_bindings after
                    \* default_keybindings(), oldest first: <<input, command, mode, entry>>
    focus_area,     \* BlinkRenderer.focus_area
    should_quit,    \* BlinkState.should_quit
    url_input,      \* BlinkRenderer.url_input
    editor,         \* BlinkRenderer.editor
    side_panel,     \* BlinkRenderer.side_panel
    config,         \* BlinkState.config
    blink_toml,     \* the file ./blink.toml that BlinkConfig::load reads
    config_watcher_rx,  \* BlinkState.config_watcher_rx: the events in flight and whether
                        \* a sender is still alive
    run_result      \* NoError while BlinkState::run is looping or has returned Ok(()),
                    \* else the error it returned or the panic that ended it

vars == <<overrides, focus_area, should_quit, url_input, editor, side_panel,
          config, blink_toml, config_watcher_rx, run_result>>

-----------------------------------------------------------------------------
(* Values *)

\* utils::VimMode as the regions use it (editor.rs:14 and side_panel.rs:13 name Any).
Modes == {"Normal", "Insert", "Visual", "Any"}

\* tui_textarea::Input as the input! macro builds it.
Input(key, ctrl, alt, shift) == [key |-> key, ctrl |-> ctrl, alt |-> alt, shift |-> shift]

\* A BlinkCommand; ch is the character InsertChar carries and "-" otherwise.
Cmd(name) == [name |-> name, ch |-> "-"]

InsertChar(c) == [name |-> "InsertChar", ch |-> c]

\* Option::None of get_command.
None == [name |-> "None", ch |-> "-"]

-----------------------------------------------------------------------------
(* KeybindingMap *)

RECURSIVE FoldBindings(_, _, _, _)

\* KeybindingMap::new
NewMap == [i \in {} |-> <<>>]

\* KeybindingMap::add_binding: entry(input).or_insert_with(Vec::new).push((command, mode))
add_binding(bindings, input, command, mode) ==
    IF input \in DOMAIN bindings
    THEN [bindings EXCEPT ![input] = Append(@, <<command, mode>>)]
    ELSE bindings @@ (input :> <<<<command, mode>>>>)

\* The index of the first binding of bs, from index i on, that get_command's match accepts.
RECURSIVE FirstMatch(_, _, _)
FirstMatch(bs, current_mode, i) ==
    IF i > Len(bs) THEN 0
    ELSE IF \/ (bs[i][2] = "Normal" /\ current_mode = "Normal")
            \/ (bs[i][2] = "Visual" /\ current_mode = "Visual")
            \/ (bs[i][2] = "Insert" /\ current_mode = "Insert")
         THEN i
         ELSE FirstMatch(bs, current_mode, i + 1)

RECURSIVE FirstMatchOrAny(_, _, _)
FirstMatchOrAny(bs, current_mode, i) ==
    IF i > Len(bs) THEN 0
    ELSE IF bs[i][2] = current_mode \/ bs[i][2] = "Any"
         THEN i
         ELSE FirstMatchOrAny(bs, current_mode, i + 1)

get_command_first_or_any(bindings, input, current_mode) ==
    IF input \in DOMAIN bindings
    THEN LET i == FirstMatchOrAny(bindings[input], current_mode, 1)
         IN  IF i = 0 THEN None ELSE bindings[input][i][1]
    ELSE None

\* KeybindingMap::get_command
get_command(bindings, input, current_mode) ==
    IF input \in DOMAIN bindings
    THEN LET i == FirstMatch(bindings[input], current_mode, 1)
         IN  IF i = 0 THEN None ELSE bindings[input][i][1]
    ELSE None

\* The add_binding calls of default_keybindings, in source order.
DefaultBindingCalls == <<
     <<Input("b", TRUE, FALSE, FALSE), Cmd("MoveCursorLeft"), "Insert">>,
     <<Input("b", FALSE, TRUE, FALSE), Cmd("MoveCursorLeftByWord"), "Insert">>,
     <<Input("B", FALSE, TRUE, TRUE), Cmd("MoveCursorLeftByWordSelecting"), "Insert">>,
     <<Input("f", TRUE, FALSE, FALSE), Cmd("MoveCursorRight"), "Insert">>,
     <<Input("f", FALSE, TRUE, FALSE), Cmd("MoveCursorRightByWord"), "Insert">>,
     <<Input("F", FALSE, TRUE, TRUE), Cmd("MoveCursorRightByWordSelecting"), "Insert">>,
     <<Input("q", TRUE, FALSE, FALSE), Cmd("Quit"), "Insert">>,
     <<Input("Tab", FALSE, FALSE, FALSE), Cmd("ToggleFocus"), "Insert">>,
     <<Input("Tab", FALSE, FALSE, FALSE), Cmd("ToggleFocus"), "Normal">>,
     <<Input("Up", FALSE, FALSE, FALSE), Cmd("MoveCursorUp"), "Insert">>,
     <<Input("p", TRUE, FALSE, FALSE), Cmd("MoveCursorUp"), "Insert">>,
     <<Input("p", TRUE, FALSE, TRUE), Cmd("MoveCursorUpSelecting"), "Insert">>,
     <<Input("p", FALSE, TRUE, FALSE), Cmd("MoveCursorUpParagraph"), "Insert">>,
     <<Input("P", FALSE, TRUE, TRUE), Cmd("MoveCursorUpParagraphSelecting"), "Insert">>,
     <<Input("Down", FALSE, FALSE, FALSE), Cmd("MoveCursorDown"), "Insert">>,
     <<Input("n", TRUE, FALSE, FALSE), Cmd("MoveCursorDown"), "Insert">>,
     <<Input("n", TRUE, FALSE, TRUE), Cmd("MoveCursorDownSelecting"), "Insert">>,
     <<Input("n", FALSE, TRUE, FALSE), Cmd("MoveCursorDownParagraph"), "Insert">>,
     <<Input("N", FALSE, TRUE, TRUE), Cmd("MoveCursorDownParagraphSelecting"), "Insert">>,
     <<Input("Left", FALSE, FALSE, FALSE), Cmd("MoveCursorLeft"), "Insert">>,
     <<Input("Left", FALSE, FALSE, TRUE), Cmd("MoveCursorLeftSelecting"), "Insert">>,
     <<Input("Left", TRUE, FALSE, FALSE), Cmd("MoveCursorLeftByWord"), "Insert">>,
     <<Input("Left", FALSE, TRUE, FALSE), Cmd("MoveCursorLeftByWord"), "Insert">>,
     <<Input("Left", TRUE, FALSE, TRUE), Cmd("MoveCursorLeftByWordSelecting"), "Insert">>,
     <<Input("Left", FALSE, TRUE, TRUE), Cmd("MoveCursorLeftByWordSelecting"), "Insert">>,
     <<Input("Right", FALSE, FALSE, FALSE), Cmd("MoveCursorRight"), "Insert">>,
     <<Input("Right", FALSE, FALSE, TRUE), Cmd("MoveCursorRightSelecting"), "Insert">>,
     <<Input("Right", TRUE, FALSE, FALSE), Cmd("MoveCursorRightByWord"), "Insert">>,
     <<Input("Right", FALSE, TRUE, FALSE), Cmd("MoveCursorRightByWord"), "Insert">>,
     <<Input("Right", TRUE, FALSE, TRUE), Cmd("MoveCursorRightByWordSelecting"), "Insert">>,
     <<Input("Right", FALSE, TRUE, TRUE), Cmd("MoveCursorRightByWordSelecting"), "Insert">>,
     <<Input("Up", FALSE, FALSE, FALSE), Cmd("MoveCursorUp"), "Insert">>,
     <<Input("Up", FALSE, FALSE, TRUE), Cmd("MoveCursorUpSelecting"), "Insert">>,
     <<Input("Up", TRUE, FALSE, FALSE), Cmd("MoveCursorUpParagraph"), "Insert">>,
     <<Input("Up", TRUE, FALSE, TRUE), Cmd("MoveCursorUpParagraphSelecting"), "Insert">>,
     <<Input("Down", FALSE, FALSE, FALSE), Cmd("MoveCursorDown"), "Insert">>,
     <<Input("Down", FALSE, FALSE, TRUE), Cmd("MoveCursorDownSelecting"), "Insert">>,
     <<Input("Down", TRUE, FALSE, FALSE), Cmd("MoveCursorDownParagraph"), "Insert">>,
     <<Input("Down", TRUE, FALSE, TRUE), Cmd("MoveCursorDownParagraphSelecting"), "Insert">>,
     <<Input("Backspace", FALSE, FALSE, FALSE), Cmd("DeleteBackward"), "Insert">>,
     <<Input("Backspace", FALSE, TRUE, FALSE), Cmd("DeleteWordBack"), "Insert">>,
     <<Input("Delete", FALSE, FALSE, FALSE), Cmd("DeleteForward"), "Insert">>,
     <<Input("Delete", FALSE, TRUE, FALSE), Cmd("DeleteWordForward"), "Insert">>,
     <<Input("k", TRUE, FALSE, FALSE), Cmd("DeleteUntilEOL"), "Insert">>,
     <<Input("j", TRUE, FALSE, FALSE), Cmd("DeleteUntilHOL"), "Insert">>,
     <<Input("u", TRUE, FALSE, FALSE), Cmd("Undo"), "Insert">>,
     <<Input("r", TRUE, FALSE, FALSE), Cmd("Redo"), "Insert">>,
     <<Input("c", TRUE, FALSE, FALSE), Cmd("Copy"), "Insert">>,
     <<Input("v", TRUE, FALSE, FALSE), Cmd("Paste"), "Insert">>,
     <<Input("x", TRUE, FALSE, FALSE), Cmd("Cut"), "Insert">>,
     <<Input("a", TRUE, FALSE, FALSE), Cmd("MoveCusorBOL"), "Insert">>,
     <<Input("A", TRUE, FALSE, TRUE), Cmd("MoveCusorBOLSelecting"), "Insert">>,
     <<Input("Home", FALSE, FALSE, FALSE), Cmd("MoveCusorBOL"), "Insert">>,
     <<Input("Home", FALSE, FALSE, TRUE), Cmd("MoveCusorBOLSelecting"), "Insert">>,
     <<Input("e", TRUE, FALSE, FALSE), Cmd("MoveCusorEOL"), "Insert">>,
     <<Input("E", TRUE, FALSE, TRUE), Cmd("MoveCusorEOLSelecting"), "Insert">>,
     <<Input("End", FALSE, FALSE, FALSE), Cmd("MoveCusorEOL"), "Insert">>,
     <<Input("End", FALSE, FALSE, TRUE), Cmd("MoveCusorEOLSelecting"), "Insert">>,
     <<Input("Enter", FALSE, FALSE, FALSE), Cmd("Enter"), "Insert">>,
     <<Input("Esc", FALSE, FALSE, FALSE), Cmd("EnterNormalMode"), "Insert">>,
     <<Input("k", FALSE, FALSE, FALSE), Cmd("MoveCursorUp"), "Normal">>,
     <<Input("h", FALSE, FALSE, FALSE), Cmd("MoveCursorLeft"), "Normal">>,
     <<Input("j", FALSE, FALSE, FALSE), Cmd("MoveCursorDown"), "Normal">>,
     <<Input("l", FALSE, FALSE, FALSE), Cmd("MoveCursorRight"), "Normal">>,
     <<Input("b", FALSE, FALSE, FALSE), Cmd("MoveCursorLeftByWord"), "Normal">>,
     <<Input("w", FALSE, FALSE, FALSE), Cmd("MoveCursorRightByWord"), "Normal">>,
     <<Input("e", FALSE, FALSE, FALSE), Cmd("MoveCursorRightByWordEnd"), "Normal">>,
     <<Input("b", FALSE, FALSE, TRUE), Cmd("MoveCursorLeftByWordParagraph"), "Normal">>,
     <<Input("w", FALSE, FALSE, TRUE), Cmd("MoveCursorRightByWordParagraph"), "Normal">>,
     <<Input("i", FALSE, FALSE, FALSE), Cmd("EnterInsertMode"), "Normal">>,
     <<Input("v", FALSE, FALSE, FALSE), Cmd("EnterVisualMode"), "Normal">>,
     <<Input("x", FALSE, FALSE, FALSE), Cmd("DeleteForward"), "Normal">>,
     <<Input("$", FALSE, FALSE, FALSE), Cmd("MoveCusorEOL"), "Normal">>,
     <<Input("A", FALSE, FALSE, TRUE), Cmd("MoveCusorEOLIntoInsertMode"), "Normal">>,
     <<Input("0", FALSE, FALSE, FALSE), Cmd("MoveCusorBOL"), "Normal">>,
     <<Input("I", FALSE, FALSE, TRUE), Cmd("MoveCusorBOLIntoInsertMode"), "Normal">>,
     <<Input("D", FALSE, FALSE, TRUE), Cmd("DeleteUntilEOL"), "Normal">>,
     <<Input("C", FALSE, FALSE, TRUE), Cmd("DeleteUntilEOLIntoInsertMode"), "Normal">>,
     <<Input("p", FALSE, FALSE, FALSE), Cmd("Paste"), "Normal">>,
     <<Input("u", FALSE, FALSE, FALSE), Cmd("Undo"), "Normal">>,
     <<Input("U", FALSE, FALSE, TRUE), Cmd("Redo"), "Normal">>,
     <<Input("o", FALSE, FALSE, FALSE), Cmd("Newline"), "Normal">>,
     <<Input("O", FALSE, FALSE, TRUE), Cmd("NewlineUp"), "Normal">>,
     <<Input("q", FALSE, FALSE, FALSE), Cmd("Quit"), "Normal">>,
     <<Input("Enter", FALSE, FALSE, FALSE), Cmd("Enter"), "Normal">>,
     <<Input("Enter", FALSE, TRUE, FALSE), Cmd("OpenInEditor"), "Normal">>,
     <<Input("k", FALSE, FALSE, FALSE), Cmd("MoveCursorUp"), "Visual">>,
     <<Input("h", FALSE, FALSE, FALSE), Cmd("MoveCursorLeft"), "Visual">>,
     <<Input("j", FALSE, FALSE, FALSE), Cmd("MoveCursorDown"), "Visual">>,
     <<Input("l", FALSE, FALSE, FALSE), Cmd("MoveCursorRight"), "Visual">>,
     <<Input("b", FALSE, FALSE, FALSE), Cmd("MoveCursorLeftByWord"), "Visual">>,
     <<Input("w", FALSE, FALSE, FALSE), Cmd("MoveCursorRightByWord"), "Visual">>,
     <<Input("e", FALSE, FALSE, FALSE), Cmd("MoveCursorRightByWordEnd"), "Visual">>,
     <<Input("b", FALSE, FALSE, TRUE), Cmd("MoveCursorLeftByWordParagraph"), "Visual">>,
     <<Input("w", FALSE, FALSE, TRUE), Cmd("MoveCursorRightByWordParagraph"), "Visual">>,
     <<Input("$", FALSE, FALSE, FALSE), Cmd("MoveCusorEOL"), "Visual">>,
     <<Input("0", FALSE, FALSE, FALSE), Cmd("MoveCusorBOL"), "Visual">>,
     <<Input("y", FALSE, FALSE, FALSE), Cmd("Copy"), "Visual">>,
     <<Input("d", FALSE, FALSE, FALSE), Cmd("Cut"), "Visual">>,
     <<Input("c", FALSE, FALSE, FALSE), Cmd("CutIntoInsertMode"), "Visual">>,
     <<Input("s", FALSE, FALSE, FALSE), Cmd("CutIntoInsertMode"), "Visual">>,
     <<Input("p", FALSE, FALSE, FALSE), Cmd("CutIntoInsertMode"), "Visual">>,
     <<Input("q", FALSE, FALSE, FALSE), Cmd("Quit"), "Visual">>,
     <<Input("Esc", FALSE, FALSE, FALSE), Cmd("EnterNormalMode"), "Visual">>
>>

\* The table after the add_binding calls calls[lo], ..., calls[hi] on bindings, in order.
FoldBindings(bindings, calls, lo, hi) ==
    IF lo > hi THEN bindings
    ELSE IF lo = hi THEN add_binding(bindings, calls[lo][1], calls[lo][2], calls[lo][3])
    ELSE LET mid == (lo + hi) \div 2
         IN  FoldBindings(FoldBindings(bindings, calls, lo, mid), calls, mid + 1, hi)

\* The table that the add_binding calls of calls, made in order on an empty table,
\* leave: each chord holds the (command, mode) pairs of its calls in call order.
BindingsOf(calls) ==
    [input \in {calls[i][1] : i \in DOMAIN calls} |->
        LET own == SelectSeq(calls, LAMBDA c : c[1] = input)
        IN  [k \in 1..Len(own) |-> <<own[k][2], own[k][3]>>]]

\* KeybindingMap::default_keybindings
default_keybindings == BindingsOf(DefaultBindingCalls)

\* BlinkState.key_bindings: the default table with the calls of overrides made on it.
key_bindings == FoldBindings(default_keybindings, overrides, 1, Len(overrides))

-----------------------------------------------------------------------------
(* Configuration overrides: parse_mode, parse_key, parse_blink_command *)

\* str::to_lowercase on the tokens a configuration of this model can hold.
LowerTable ==
    [s \in {"J", "Z", "Normal", "Insert", "Visual", "Any", "Ctrl", "Control", "Alt", "Shift",
            "Enter", "Tab", "Esc", "MoveCursorDown", "MoveCursorUp", "MoveCursorLeft",
            "Quit", "ToggleFocus", "DeleteWord", "Nope", "Bogus", "Hyper"} |->
        CASE s = "J" -> "j"
          [] s = "Z" -> "z"
          [] s = "Normal" -> "normal"
          [] s = "Insert" -> "insert"
          [] s = "Visual" -> "visual"
          [] s = "Any" -> "any"
          [] s = "Ctrl" -> "ctrl"
          [] s = "Control" -> "control"
          [] s = "Alt" -> "alt"
          [] s = "Shift" -> "shift"
          [] s = "Enter" -> "enter"
          [] s = "Tab" -> "tab"
          [] s = "Esc" -> "esc"
          [] s = "MoveCursorDown" -> "movecursordown"
          [] s = "MoveCursorUp" -> "movecursorup"
          [] s = "MoveCursorLeft" -> "movecursorleft"
          [] s = "Quit" -> "quit"
          [] s = "ToggleFocus" -> "togglefocus"
          [] s = "DeleteWord" -> "deleteword"
          [] s = "Nope" -> "nope"
          [] s = "Bogus" -> "bogus"
          [] s = "Hyper" -> "hyper"]

to_lowercase(s) == IF s \in DOMAIN LowerTable THEN LowerTable[s] ELSE s

\* The strings of length one (k.len() == 1 in parse_key).
OneCharStrings ==
    {"a", "b", "c", "d", "e", "f", "g", "h", "i", "j", "k", "l", "m", "n", "o", "p", "q",
     "r", "s", "t", "u", "v", "w", "x", "y", "z", "0", "$", ":", "/", " ",
     "A", "B", "C", "D", "E", "F", "I", "J", "N", "O", "P", "U", "Z"}

Ok(v) == [ok |-> TRUE, val |-> v, err |-> <<>>]

\* anyhow!("<prefix>{}", literal): the message is the prefix followed by the literal.
Err(prefix, literal) == [ok |-> FALSE, val |-> None, err |-> <<prefix, literal>>]

parse_mode_case_sensitive(s) ==
    CASE s = "Normal" -> "Normal"
      [] s = "Insert" -> "Insert"
      [] OTHER -> "Insert"

\* parse_mode
parse_mode(s) ==
    LET l == to_lowercase(s)
    IN  CASE l = "normal" -> "Normal"
          [] l = "insert" -> "Insert"
          [] OTHER -> "Insert"

\* The modifier loop of parse_key: the first unknown modifier is the error.
RECURSIVE ParseModifiers(_, _, _)
ParseModifiers(mods, i, acc) ==
    IF i > Len(mods) THEN Ok(acc)
    ELSE LET l == to_lowercase(mods[i])
         IN  CASE l \in {"control", "ctrl"} -> ParseModifiers(mods, i + 1, [acc EXCEPT !.ctrl = TRUE])
               [] l = "alt" -> ParseModifiers(mods, i + 1, [acc EXCEPT !.alt = TRUE])
               [] l = "shift" -> ParseModifiers(mods, i + 1, [acc EXCEPT !.shift = TRUE])
               [] OTHER -> Err("Unknown key modifier: ", mods[i])

\* parse_key
parse_key(binding) ==
    LET l == to_lowercase(binding.key)
        key == CASE l = "enter" -> Ok("Enter")
                 [] l = "backspace" -> Ok("Backspace")
                 [] l = "tab" -> Ok("Tab")
                 [] l \in {"esc", "escape"} -> Ok("Esc")
                 [] l = "up" -> Ok("Up")
                 [] l = "down" -> Ok("Down")
                 [] l = "left" -> Ok("Left")
                 [] l = "right" -> Ok("Right")
                 [] l \in OneCharStrings -> Ok(l)
                 [] OTHER -> Err("Unknown key code: ", binding.key)
    IN  IF ~key.ok THEN key
        ELSE ParseModifiers(binding.modifiers, 1, Input(key.val, FALSE, FALSE, FALSE))

\* The names parse_blink_command accepts, each with the command it yields.
CommandNames ==
    [n \in {"quit", "togglefocus", "enterinsertmode", "entervisualmode", "enternormalmode",
            "movecursorup", "movecursordown", "movecursorleft", "movecursorleftselecting",
            "movecursorleftbyword", "movecursorleftbywordselecting",
            "movecursorleftbywordparagraph", "movecursorright", "movecursorrightselecting",
            "movecursorrightbyword", "movecursorrightbywordselecting",
            "movecursorrightbywordend", "movecursorrightbywordparagraph",
            "deletebackward", "deleteforward", "deleteword"} |->
        CASE n = "quit" -> "Quit"
          [] n = "togglefocus" -> "ToggleFocus"
          [] n = "enterinsertmode" -> "EnterInsertMode"
          [] n = "entervisualmode" -> "EnterVisualMode"
          [] n = "enternormalmode" -> "EnterNormalMode"
          [] n = "movecursorup" -> "MoveCursorUp"
          [] n = "movecursordown" -> "MoveCursorDown"
          [] n = "movecursorleft" -> "MoveCursorLeft"
          [] n = "movecursorleftselecting" -> "MoveCursorLeftSelecting"
          [] n = "movecursorleftbyword" -> "MoveCursorLeftByWord"
          [] n = "movecursorleftbywordselecting" -> "MoveCursorLeftByWordSelecting"
          [] n = "movecursorleftbywordparagraph" -> "MoveCursorLeftByWordParagraph"
          [] n = "movecursorright" -> "MoveCursorRight"
          [] n = "movecursorrightselecting" -> "MoveCursorRightSelecting"
          [] n = "movecursorrightbyword" -> "MoveCursorRightByWord"
          [] n = "movecursorrightbywordselecting" -> "MoveCursorRightByWordSelecting"
          [] n = "movecursorrightbywordend" -> "MoveCursorRightByWordEnd"
          [] n = "movecursorrightbywordparagraph" -> "MoveCursorRightByWordParagraph"
          [] n = "deletebackward" -> "DeleteBackward"
          [] n = "deleteforward" -> "DeleteForward"
          [] n = "deleteword" -> "DeleteWordBack"]

parse_blink_command_echo_lowercased(cmd) ==
    LET l == to_lowercase(cmd)
    IN  IF l \in DOMAIN CommandNames THEN Ok(Cmd(CommandNames[l]))
        ELSE Err("Unknown BlinkCommand: ", l)

\* parse_blink_command
parse_blink_command(cmd) ==
    LET l == to_lowercase(cmd)
    IN  IF l \in DOMAIN CommandNames THEN Ok(Cmd(CommandNames[l]))
        ELSE Err("Unknown BlinkCommand: ", cmd)

\* KeybindingMap::add_bindings_from_config from entry i on: the table is changed in
\* place entry by entry, and the first entry that does not parse ends the loop with
\* its error. added lists the add_binding calls made.
RECURSIVE ApplyConfig(_, _, _, _)
ApplyConfig(bindings, config_bindings, i, added) ==
    IF i > Len(config_bindings)
    THEN [bindings |-> bindings, added |-> added, ok |-> TRUE, err |-> <<>>]
    ELSE LET binding == config_bindings[i]
             key == parse_key(binding)
             mode == parse_mode(binding.mode)
             command == parse_blink_command(binding.command)
         IN  IF ~key.ok
             THEN [bindings |-> bindings, added |-> added, ok |-> FALSE, err |-> key.err]
             ELSE IF ~command.ok
             THEN [bindings |-> bindings, added |-> added, ok |-> FALSE, err |-> command.err]
             ELSE ApplyConfig(add_binding(bindings, key.val, command.val, mode),
                              config_bindings, i + 1,
                              Append(added, <<key.val, command.val, mode, binding>>))

\* KeybindingMap::add_bindings_from_config
add_bindings_from_config(bindings, config_bindings) ==
    ApplyConfig(bindings, config_bindings, 1, <<>>)

-----------------------------------------------------------------------------
(* tui_textarea::TextArea as URLInput uses it: one line of text, a cursor column, *)
(* an optional selection start, the yank buffer and the edit history.             *)

NoSelection == [active |-> FALSE, col |-> 0]

NoHistory == [edits |-> <<>>, index |-> 0]

\* TextArea::default() followed by insert_str(s): the text is s and the cursor is at
\* its end; the text area has no selection and an empty yank buffer, and the
\* insertion of a non-empty s is its first edit.
TextAreaWith(s) ==
    [text |-> s, cursor |-> Len(s), sel |-> NoSelection, yank |-> <<>>,
     history |-> IF s = <<>> THEN NoHistory
                 ELSE [edits |-> <<[kind |-> "insert", at |-> 0, str |-> s,
                                    before |-> 0, after |-> Len(s)]>>,
                       index |-> 1]]

\* TextArea::start_selection
start_selection(ta) == [ta EXCEPT !.sel = [active |-> TRUE, col |-> ta.cursor]]

\* TextArea::cancel_selection
cancel_selection(ta) == [ta EXCEPT !.sel = NoSelection]

\* TextArea::is_selecting
is_selecting(ta) == ta.sel.active

Min(a, b) == IF a < b THEN a ELSE b

Max(a, b) == IF a < b THEN b ELSE a

\* The text between columns from and to (from inclusive, to exclusive, counted from 0).
Slice(text, from, to) == SubSeq(text, from + 1, to)

\* History::push: the edits past the index are dropped and the edit is appended.
history_push(h, edit) ==
    [edits |-> Append(SubSeq(h.edits, 1, h.index), edit), index |-> h.index + 1]

\* The text with str inserted at column at.
InsertAt(text, at, str) == Slice(text, 0, at) \o str \o Slice(text, at, Len(text))

\* The text without the n characters from column at on.
RemoveAt(text, at, n) == Slice(text, 0, at) \o Slice(text, at + n, Len(text))

\* TextArea::delete_selection: the selection start is always taken; a non-empty range
\* is removed (delete_range), the cursor goes to its start, the removed text is
\* yanked on demand, and the edit is recorded with the end of the range as the
\* cursor before it.
delete_selection(ta, should_yank) ==
    IF ta.sel.active /\ ta.sel.col # ta.cursor
    THEN LET s == Min(ta.sel.col, ta.cursor)
             e == Max(ta.sel.col, ta.cursor)
             removed == Slice(ta.text, s, e)
         IN  [text |-> RemoveAt(ta.text, s, e - s),
              cursor |-> s,
              sel |-> NoSelection,
              yank |-> IF should_yank THEN removed ELSE ta.yank,
              history |-> history_push(ta.history,
                              [kind |-> "delete", at |-> s, str |-> removed,
                               before |-> e, after |-> s])]
    ELSE [ta EXCEPT !.sel = NoSelection]

\* TextArea::copy: the selection start is taken, and a non-empty range is yanked.
ta_copy(ta) ==
    IF ta.sel.active /\ ta.sel.col # ta.cursor
    THEN [ta EXCEPT !.sel = NoSelection,
                    !.yank = Slice(ta.text, Min(ta.sel.col, ta.cursor), Max(ta.sel.col, ta.cursor))]
    ELSE [ta EXCEPT !.sel = NoSelection]

\* TextArea::cut
ta_cut(ta) == delete_selection(ta, TRUE)

\* TextArea::insert_char for a character other than a line break.
ta_insert_char(ta, c) ==
    LET d == delete_selection(ta, FALSE)
    IN  [d EXCEPT !.text = InsertAt(d.text, d.cursor, <<c>>),
                  !.cursor = d.cursor + 1,
                  !.history = history_push(@, [kind |-> "insert", at |-> d.cursor, str |-> <<c>>,
                                               before |-> d.cursor, after |-> d.cursor + 1])]

\* TextArea::paste: the selection is deleted, then a non-empty yank buffer is inserted
\* at the cursor (insert_piece).
ta_paste(ta) ==
    LET d == delete_selection(ta, FALSE)
    IN  IF d.yank = <<>> THEN d
        ELSE [d EXCEPT !.text = InsertAt(d.text, d.cursor, d.yank),
                       !.cursor = d.cursor + Len(d.yank),
                       !.history = history_push(@, [kind |-> "insert", at |-> d.cursor, str |-> d.yank,
                                                    before |-> d.cursor, after |-> d.cursor + Len(d.yank)])]

\* TextArea::delete_char: a selection is deleted instead; at column 0 of the first
\* line there is nothing to delete.
ta_delete_char(ta) ==
    IF ta.sel.active /\ ta.sel.col # ta.cursor THEN delete_selection(ta, FALSE)
    ELSE LET d == [ta EXCEPT !.sel = NoSelection]
         IN  IF d.cursor = 0 THEN d
             ELSE [d EXCEPT !.text = RemoveAt(d.text, d.cursor - 1, 1),
                            !.cursor = d.cursor - 1,
                            !.history = history_push(@,
                                [kind |-> "delete", at |-> d.cursor - 1,
                                 str |-> Slice(d.text, d.cursor - 1, d.cursor),
                                 before |-> d.cursor, after |-> d.cursor - 1])]

\* TextArea::delete_next_char: a selection is deleted instead; otherwise the cursor
\* steps forward (it cannot at the end of the text) and delete_char removes the
\* character it stepped over.
ta_delete_next_char(ta) ==
    IF ta.sel.active /\ ta.sel.col # ta.cursor THEN delete_selection(ta, FALSE)
    ELSE LET d == [ta EXCEPT !.sel = NoSelection]
         IN  IF d.cursor >= Len(d.text) THEN d
             ELSE ta_delete_char([d EXCEPT !.cursor = d.cursor + 1])

\* TextArea::delete_line_by_end: a selection is deleted instead; otherwise the text
\* from the cursor to the end of the line is removed and yanked (delete_piece), and at
\* the end of the line delete_next_char is tried.
ta_delete_line_by_end(ta) ==
    IF ta.sel.active /\ ta.sel.col # ta.cursor THEN delete_selection(ta, FALSE)
    ELSE LET d == [ta EXCEPT !.sel = NoSelection]
             removed == Slice(d.text, d.cursor, Len(d.text))
         IN  IF d.cursor >= Len(d.text) THEN ta_delete_next_char(d)
             ELSE [d EXCEPT !.text = Slice(d.text, 0, d.cursor),
                            !.yank = removed,
                            !.history = history_push(@,
                                [kind |-> "delete", at |-> d.cursor, str |-> removed,
                                 before |-> d.cursor, after |-> d.cursor])]

\* TextArea::undo: the edit before the index is reverted, the selection is cancelled
\* and the cursor goes where it was before the edit; nothing happens at index 0.
ta_undo(ta) ==
    IF ta.history.index = 0 THEN ta
    ELSE LET edit == ta.history.edits[ta.history.index]
         IN  [ta EXCEPT !.text = IF edit.kind = "insert"
                                 THEN RemoveAt(ta.text, edit.at, Len(edit.str))
                                 ELSE InsertAt(ta.text, edit.at, edit.str),
                        !.cursor = edit.before,
                        !.sel = NoSelection,
                        !.history.index = @ - 1]

\* TextArea::redo: the edit at the index is applied again, the selection is cancelled
\* and the cursor goes where it was after the edit; nothing happens past the last edit.
ta_redo(ta) ==
    IF ta.history.index = Len(ta.history.edits) THEN ta
    ELSE LET edit == ta.history.edits[ta.history.index + 1]
         IN  [ta EXCEPT !.text = IF edit.kind = "insert"
                                 THEN InsertAt(ta.text, edit.at, edit.str)
                                 ELSE RemoveAt(ta.text, edit.at, Len(edit.str)),
                        !.cursor = edit.after,
                        !.sel = NoSelection,
                        !.history.index = @ + 1]

\* CharKind::new: white space, ASCII punctuation, or any other character.
CharKind(c) ==
    CASE c = " " -> "Space"
      [] c \in {":", "/", "$"} -> "Punct"
      [] OTHER -> "Other"

\* The columns after start_col at which a word starts: the character there is no
\* space and is of another kind than the character before it.
WordStarts(line, start_col) ==
    {col \in (start_col + 1)..(Len(line) - 1) :
        /\ CharKind(line[col + 1]) # "Space"
        /\ CharKind(line[col]) # CharKind(line[col + 1])}

find_word_start_forward_at_any_kind_change(line, start_col) ==
    LET starts == {col \in (start_col + 1)..(Len(line) - 1) :
                      CharKind(line[col]) # CharKind(line[col + 1])} \cup {Len(line) + 1}
    IN  CHOOSE col \in starts : \A other \in starts : col <= other

\* find_word_start_forward: the first column after start_col at which a word starts;
\* Len(line) + 1 stands for None.
find_word_start_forward(line, start_col) ==
    LET starts == WordStarts(line, start_col) \cup {Len(line) + 1}
    IN  CHOOSE col \in starts : \A other \in starts : col <= other

next_cursor_paragraph_to_line_bounds(ta, m) ==
    CASE m = "Back" -> IF ta.cursor > 0 THEN ta.cursor - 1 ELSE ta.cursor
      [] m = "Forward" -> IF ta.cursor < Len(ta.text) THEN ta.cursor + 1 ELSE ta.cursor
      [] m = "Head" -> 0
      [] m = "End" -> Len(ta.text)
      [] m = "ParagraphBack" -> 0
      [] m = "ParagraphForward" -> Len(ta.text)
      [] m = "WordForward" -> Min(find_word_start_forward(ta.text, ta.cursor), Len(ta.text))

\* CursorMove::next_cursor on a single line; the cursor itself when the move is refused.
\* ParagraphBack has no row above row 0 and is refused; ParagraphForward finds no
\* paragraph below and ends on the last row, which is row 0, at the column fitted to it.
\* WordForward goes to the next word start of the line and, there being no next line,
\* to the end of the line when there is none.
next_cursor(ta, m) ==
    CASE m = "Back" -> IF ta.cursor > 0 THEN ta.cursor - 1 ELSE ta.cursor
      [] m = "Forward" -> IF ta.cursor < Len(ta.text) THEN ta.cursor + 1 ELSE ta.cursor
      [] m = "Head" -> 0
      [] m = "End" -> Len(ta.text)
      [] m = "ParagraphBack" -> ta.cursor
      [] m = "ParagraphForward" -> Min(ta.cursor, Len(ta.text))
      [] m = "WordForward" -> Min(find_word_start_forward(ta.text, ta.cursor), Len(ta.text))

\* TextArea::move_cursor: a move made while selecting keeps the selection start.
move_cursor(ta, m) == [ta EXCEPT !.cursor = next_cursor(ta, m)]

-----------------------------------------------------------------------------
(* URLInput *)

\* The text URLInput::new inserts: "http://".
UrlPrefix == <<"h", "t", "t", "p", ":", "/", "/">>

\* URLInput::new
URLInputNew(vim_mode) ==
    [text_area |-> TextAreaWith(UrlPrefix),
     mode |-> IF vim_mode THEN "Normal" ELSE "Insert",
     vim_mode |-> vim_mode]

\* URLInput::enter_insert_mode
url_enter_insert_mode(u) ==
    IF u.vim_mode
    THEN [u EXCEPT !.text_area = cancel_selection(@), !.mode = "Insert"]
    ELSE u

\* URLInput::enter_normal_mode
url_enter_normal_mode(u) ==
    IF u.vim_mode
    THEN [u EXCEPT !.text_area = cancel_selection(@), !.mode = "Normal"]
    ELSE u

\* URLInput::enter_visual_mode
url_enter_visual_mode(u) ==
    IF u.vim_mode
    THEN [u EXCEPT !.mode = "Visual", !.text_area = start_selection(@)]
    ELSE u

\* URLInput::move_cursor_left, move_cursor_right, move_cursor_bol, move_cursor_eol:
\* outside Visual mode the selection is cleared, then the cursor moves by m.
url_move(u, m) ==
    LET c == IF u.mode # "Visual" THEN cancel_selection(u.text_area) ELSE u.text_area
    IN  [u EXCEPT !.text_area = move_cursor(c, m)]

url_move_selecting_restarting(u, m) ==
    [u EXCEPT !.text_area = move_cursor(start_selection(u.text_area), m)]

\* URLInput::move_cursor_left_selecting and the other selecting motions: a selection
\* is started unless one is active, then the cursor moves by m.
url_move_selecting(u, m) ==
    LET c == IF ~is_selecting(u.text_area) THEN start_selection(u.text_area) ELSE u.text_area
    IN  [u EXCEPT !.text_area = move_cursor(c, m)]

\* URLInput::delete_char (deletes forward)
url_delete_char(u) == [u EXCEPT !.text_area = ta_delete_next_char(@)]

\* URLInput::backspace
url_backspace(u) == [u EXCEPT !.text_area = ta_delete_char(@)]

\* URLInput::insert_char
url_insert_char(u, c) == [u EXCEPT !.text_area = ta_insert_char(@, c)]

\* URLInput::delete_until_eol
url_delete_until_eol(u) == [u EXCEPT !.text_area = ta_delete_line_by_end(@)]

\* URLInput::undo
url_undo(u) == [u EXCEPT !.text_area = ta_undo(@)]

\* URLInput::redo
url_redo(u) == [u EXCEPT !.text_area = ta_redo(@)]

\* URLInput::copy
url_copy(u) == [u EXCEPT !.text_area = ta_copy(@)]

\* URLInput::paste
url_paste(u) == [u EXCEPT !.text_area = ta_paste(@)]

\* URLInput::cut
url_cut(u) == [u EXCEPT !.text_area = ta_cut(@)]

-----------------------------------------------------------------------------
(* Editor: a ropey::Rope (here the sequence of its characters) and a cursor *)

NL == "\n"

\* Rope::len_chars
len_chars(content) == Len(content)

\* Rope::len_lines: one more than the number of line breaks.
len_lines(content) == Cardinality({i \in 1..Len(content) : content[i] = NL}) + 1

\* Rope::line_to_char: the index of the first character of line y.
line_to_char(content, y) ==
    IF y = 0 THEN 0
    ELSE LET breaks == {i \in 1..Len(content) :
                          content[i] = NL /\ Cardinality({j \in 1..i : content[j] = NL}) = y}
         IN  IF breaks = {} THEN Len(content) ELSE CHOOSE i \in breaks : TRUE

\* Rope::line(y).len_chars(): the length of line y, its line break included.
line_len_chars(content, y) ==
    IF y + 1 < len_lines(content)
    THEN line_to_char(content, y + 1) - line_to_char(content, y)
    ELSE Len(content) - line_to_char(content, y)

\* Rope::insert_char
rope_insert(content, offset, c) ==
    SubSeq(content, 1, offset) \o <<c>> \o SubSeq(content, offset + 1, Len(content))

\* Rope::remove(offset..offset + 1)
rope_remove(content, offset) ==
    SubSeq(content, 1, offset) \o SubSeq(content, offset + 2, Len(content))

\* Editor::new
EditorNew(vim_mode) ==
    [content |-> <<>>, cursor_x |-> 0, cursor_y |-> 0,
     yank |-> <<>>,      \* the text Editor::copy and Editor::cut keep

     mode |-> IF vim_mode THEN "Normal" ELSE "Any",
     vim_mode |-> vim_mode]

\* Editor::enter_insert_mode
editor_enter_insert_mode(e) == IF e.vim_mode THEN [e EXCEPT !.mode = "Insert"] ELSE e

editor_enter_normal_mode_from_insert_only(e) ==
    IF e.vim_mode /\ e.mode = "Insert" THEN [e EXCEPT !.mode = "Normal"] ELSE e

\* Editor::enter_normal_mode
editor_enter_normal_mode(e) == IF e.vim_mode THEN [e EXCEPT !.mode = "Normal"] ELSE e

\* Editor::enter_visual_mode
editor_enter_visual_mode(e) == IF e.vim_mode THEN [e EXCEPT !.mode = "Visual"] ELSE e

\* The content after the while loop of Editor::insert_char, which appends line breaks
\* until line cursor_y exists.
RECURSIVE PadLines(_, _)
PadLines(content, cursor_y) ==
    IF cursor_y >= len_lines(content) THEN PadLines(Append(content, NL), cursor_y)
    ELSE content

editor_insert_char_at_line_start(e, c) ==
    LET padded == PadLines(e.content, e.cursor_y)
    IN  [e EXCEPT !.content = rope_insert(padded, line_to_char(padded, e.cursor_y), c),
                  !.cursor_x = e.cursor_x + 1]

\* Editor::insert_char
editor_insert_char(e, c) ==
    LET padded == PadLines(e.content, e.cursor_y)
        line_start == line_to_char(padded, e.cursor_y)
        char_offset == line_start + e.cursor_x
    IN  [e EXCEPT !.content = rope_insert(padded, char_offset, c),
                  !.cursor_x = e.cursor_x + 1]

\* Editor::delete_char
editor_delete_char(e) ==
    IF e.cursor_y < len_lines(e.content) /\ e.cursor_x < line_len_chars(e.content, e.cursor_y)
    THEN [e EXCEPT !.content = rope_remove(@, line_to_char(e.content, e.cursor_y) + e.cursor_x)]
    ELSE e

\* Editor::backspace
editor_backspace(e) ==
    IF e.mode = "Insert" /\ e.cursor_y < len_lines(e.content)
    THEN IF e.cursor_x > 0
         THEN [e EXCEPT !.content = rope_remove(@, line_to_char(e.content, e.cursor_y) + e.cursor_x - 1),
                        !.cursor_x = e.cursor_x - 1]
         ELSE IF e.cursor_y > 0
         THEN LET y == e.cursor_y - 1
                  line_len == line_len_chars(e.content, y)
                  char_offset == line_to_char(e.content, y) + Max(line_len - 1, 0)
                  joined == rope_remove(e.content, char_offset)
              IN  IF line_len > 0
                  THEN [e EXCEPT !.content = joined, !.cursor_y = y,
                                 !.cursor_x = line_len_chars(joined, y)]
                  ELSE [e EXCEPT !.cursor_y = y, !.cursor_x = 0]
         ELSE e
    ELSE e

\* Editor::move_cursor_left
editor_move_cursor_left(e) ==
    IF e.cursor_y < len_lines(e.content)
    THEN IF e.cursor_x > 0 THEN [e EXCEPT !.cursor_x = e.cursor_x - 1]
         ELSE IF e.cursor_y > 0
         THEN [e EXCEPT !.cursor_y = e.cursor_y - 1,
                        !.cursor_x = line_len_chars(e.content, e.cursor_y - 1)]
         ELSE e
    ELSE e

\* Editor::move_cursor_right
editor_move_cursor_right(e) ==
    IF e.cursor_y < len_lines(e.content)
    THEN IF e.cursor_x < line_len_chars(e.content, e.cursor_y)
         THEN [e EXCEPT !.cursor_x = e.cursor_x + 1]
         ELSE IF e.cursor_y + 1 < len_lines(e.content)
         THEN [e EXCEPT !.cursor_y = e.cursor_y + 1, !.cursor_x = 0]
         ELSE e
    ELSE e

\* Editor::move_cursor_up
editor_move_cursor_up(e) ==
    IF e.cursor_y > 0
    THEN [e EXCEPT !.cursor_y = e.cursor_y - 1,
                   !.cursor_x = Min(e.cursor_x, line_len_chars(e.content, e.cursor_y - 1))]
    ELSE e

\* Editor::move_cursor_down
editor_move_cursor_down(e) ==
    IF e.cursor_y + 1 < len_lines(e.content)
    THEN [e EXCEPT !.cursor_y = e.cursor_y + 1,
                   !.cursor_x = Min(e.cursor_x, line_len_chars(e.content, e.cursor_y + 1))]
    ELSE e

-----------------------------------------------------------------------------
(* SidePanel *)

\* SidePanel::new
SidePanelNew(requests, vim_mode) ==
    [requests |-> requests, selected_request |-> 0,
     mode |-> IF vim_mode THEN "Normal" ELSE "Any",
     vim_mode |-> vim_mode]

\* SidePanel::move_cursor_up
side_move_cursor_up(p) ==
    IF p.selected_request > 0 THEN [p EXCEPT !.selected_request = @ - 1] ELSE p

side_move_cursor_down_unclamped(p) == [p EXCEPT !.selected_request = @ + 1]

\* SidePanel::move_cursor_down
side_move_cursor_down(p) ==
    IF p.selected_request + 1 < Len(p.requests) THEN [p EXCEPT !.selected_request = @ + 1] ELSE p

-----------------------------------------------------------------------------
(* Operations of Editor that BlinkState calls and editor.rs does not define *)

\* Editor::copy: there is no selection in this Editor, so the current line is copied.
editor_copy(e) ==
    IF e.cursor_y < len_lines(e.content)
    THEN LET from == line_to_char(e.content, e.cursor_y)
         IN  [e EXCEPT !.yank = SubSeq(e.content, from + 1, from + line_len_chars(e.content, e.cursor_y))]
    ELSE e

\* Editor::move_cursor_bol: the cursor goes to the start of its line.
editor_move_cursor_bol(e) == [e EXCEPT !.cursor_x = 0]

\* Editor::cut: the current line is removed and copied, the cursor goes to the start
\* of the line that takes its place, and a Visual mode ends.
editor_cut(e) ==
    IF e.cursor_y < len_lines(e.content)
    THEN LET from == line_to_char(e.content, e.cursor_y)
             n == line_len_chars(e.content, e.cursor_y)
             rest == SubSeq(e.content, 1, from) \o SubSeq(e.content, from + n + 1, Len(e.content))
         IN  [e EXCEPT !.yank = SubSeq(e.content, from + 1, from + n),
                       !.content = rest,
                       !.cursor_x = 0,
                       !.cursor_y = Min(e.cursor_y, len_lines(rest) - 1),
                       !.mode = IF e.mode = "Visual" THEN "Normal" ELSE e.mode]
    ELSE e

-----------------------------------------------------------------------------
(* BlinkRenderer and BlinkState: the application state and its command dispatch *)

FocusAreas == {"SidePanel", "URLInput", "Editor"}

\* The application state a command acts on.
AppState(f, q, u, e, p) ==
    [focus_area |-> f, should_quit |-> q, url_input |-> u, editor |-> e, side_panel |-> p]

\* str::lines of a request body, joined again by the line breaks load_request inserts:
\* the body without its final line break.
BodyLines(body) ==
    IF body # <<>> /\ body[Len(body)] = NL THEN SubSeq(body, 1, Len(body) - 1) ELSE body

load_request_merging(S, req) ==
    LET body == S.editor.content \o BodyLines(req.body)
        y == len_lines(body) - 1
    IN  [S EXCEPT !.url_input.text_area = TextAreaWith(req.url),
                  !.editor.content = body,
                  !.editor.cursor_y = y,
                  !.editor.cursor_x = Len(body) - line_to_char(body, y)]

\* BlinkRenderer::load_request: both buffers are replaced; the Editor's cursor is at
\* the end of the inserted body, where the fresh text area leaves it.
load_request(S, req) ==
    LET body == BodyLines(req.body)
        y == len_lines(body) - 1
    IN  [S EXCEPT !.url_input.text_area = TextAreaWith(req.url),
                  !.editor.content = body,
                  !.editor.cursor_y = y,
                  !.editor.cursor_x = Len(body) - line_to_char(body, y)]

toggle_focus_resetting(S) ==
    CASE S.focus_area = "SidePanel" ->
            [S EXCEPT !.focus_area = "URLInput", !.url_input = url_enter_normal_mode(@)]
      [] S.focus_area = "URLInput" -> [S EXCEPT !.focus_area = "Editor"]
      [] S.focus_area = "Editor" -> [S EXCEPT !.focus_area = "SidePanel"]

\* BlinkState::toggle_focus
toggle_focus(S) ==
    [S EXCEPT !.focus_area = CASE S.focus_area = "SidePanel" -> "URLInput"
                               [] S.focus_area = "URLInput" -> "Editor"
                               [] S.focus_area = "Editor" -> "SidePanel"]

\* BlinkState::enter_insert_mode
enter_insert_mode(S) ==
    CASE S.focus_area = "URLInput" -> [S EXCEPT !.url_input = url_enter_insert_mode(@)]
      [] S.focus_area = "Editor" -> [S EXCEPT !.editor = editor_enter_insert_mode(@)]
      [] OTHER -> S

\* BlinkState::enter_normal_mode
enter_normal_mode(S) ==
    CASE S.focus_area = "URLInput" -> [S EXCEPT !.url_input = url_enter_normal_mode(@)]
      [] S.focus_area = "Editor" -> [S EXCEPT !.editor = editor_enter_normal_mode(@)]
      [] OTHER -> S

\* BlinkState::enter_visual_mode
enter_visual_mode(S) ==
    CASE S.focus_area = "URLInput" -> [S EXCEPT !.url_input = url_enter_visual_mode(@)]
      [] S.focus_area = "Editor" -> [S EXCEPT !.editor = editor_enter_visual_mode(@)]
      [] OTHER -> S

\* BlinkState::enter
enter(S) ==
    CASE S.focus_area = "SidePanel" ->
            LET index == S.side_panel.selected_request
            IN  IF index < Len(S.side_panel.requests)
                THEN [load_request(S, S.side_panel.requests[index + 1]) EXCEPT !.focus_area = "Editor"]
                ELSE S
      [] S.focus_area = "URLInput" -> S
      [] S.focus_area = "Editor" ->
            IF S.editor.mode = "Insert"
            THEN [S EXCEPT !.editor = editor_insert_char(@, NL)]
            ELSE S

\* BlinkState::move_cursor_up
move_cursor_up(S) ==
    CASE S.focus_area = "SidePanel" -> [S EXCEPT !.side_panel = side_move_cursor_up(@)]
      [] S.focus_area = "Editor" -> [S EXCEPT !.editor = editor_move_cursor_up(@)]
      [] OTHER -> S

\* BlinkState::move_cursor_down
move_cursor_down(S) ==
    CASE S.focus_area = "SidePanel" -> [S EXCEPT !.side_panel = side_move_cursor_down(@)]
      [] S.focus_area = "Editor" -> [S EXCEPT !.editor = editor_move_cursor_down(@)]
      [] OTHER -> S

\* BlinkState::move_cursor_left
move_cursor_left(S) ==
    CASE S.focus_area = "URLInput" -> [S EXCEPT !.url_input = url_move(@, "Back")]
      [] S.focus_area = "Editor" -> [S EXCEPT !.editor = editor_move_cursor_left(@)]
      [] OTHER -> S

\* BlinkState::move_cursor_right
move_cursor_right(S) ==
    CASE S.focus_area = "URLInput" -> [S EXCEPT !.url_input = url_move(@, "Forward")]
      [] S.focus_area = "Editor" -> [S EXCEPT !.editor = editor_move_cursor_right(@)]
      [] OTHER -> S

\* BlinkState::move_cursor_bol
move_cursor_bol(S) ==
    CASE S.focus_area = "URLInput" -> [S EXCEPT !.url_input = url_move(@, "Head")]
      [] S.focus_area = "Editor" -> [S EXCEPT !.editor = editor_move_cursor_bol(@)]
      [] OTHER -> S

insert_char_whatever_the_focus(S, c) ==
    CASE S.focus_area = "Editor" -> [S EXCEPT !.editor = editor_insert_char(@, c)]
      [] OTHER -> [S EXCEPT !.url_input = url_insert_char(@, c)]

\* BlinkState::insert_char
insert_char(S, c) ==
    CASE S.focus_area = "URLInput" -> [S EXCEPT !.url_input = url_insert_char(@, c)]
      [] S.focus_area = "Editor" -> [S EXCEPT !.editor = editor_insert_char(@, c)]
      [] OTHER -> S

\* BlinkState::backspace
backspace(S) ==
    CASE S.focus_area = "URLInput" -> [S EXCEPT !.url_input = url_backspace(@)]
      [] S.focus_area = "Editor" -> [S EXCEPT !.editor = editor_backspace(@)]
      [] OTHER -> S

\* BlinkState::delete_char
delete_char(S) ==
    CASE S.focus_area = "URLInput" -> [S EXCEPT !.url_input = url_delete_char(@)]
      [] S.focus_area = "Editor" -> [S EXCEPT !.editor = editor_delete_char(@)]
      [] OTHER -> S

\* BlinkState::copy
copy(S) ==
    CASE S.focus_area = "URLInput" -> [S EXCEPT !.url_input = url_copy(@)]
      [] S.focus_area = "Editor" -> [S EXCEPT !.editor = editor_copy(@)]
      [] OTHER -> S

\* BlinkState::cut
cut(S) ==
    CASE S.focus_area = "URLInput" -> [S EXCEPT !.url_input = url_cut(@)]
      [] S.focus_area = "Editor" -> [S EXCEPT !.editor = editor_cut(@)]
      [] OTHER -> S

\* The commands whose handler has an arm for the Editor only: move_cursor_up_paragraph,
\* move_cursor_up_selecting, move_cursor_up_paragraph_selecting, their move_cursor_down
\* counterparts, newline and newline_up.
EditorOnlyCommands ==
    {"MoveCursorUpParagraph", "MoveCursorUpSelecting", "MoveCursorUpParagraphSelecting",
     "MoveCursorDownParagraph", "MoveCursorDownSelecting", "MoveCursorDownParagraphSelecting",
     "Newline", "NewlineUp"}

\* The commands, besides those with a handler above, whose handler has an arm for
\* URLInput and an arm for the Editor.
TextCommands ==
    {"MoveCursorLeftSelecting", "MoveCursorLeftByWord", "MoveCursorLeftByWordSelecting",
     "MoveCursorLeftByWordParagraph", "MoveCursorRightSelecting", "MoveCursorRightByWord",
     "MoveCursorRightByWordSelecting", "MoveCursorRightByWordParagraph",
     "MoveCursorRightByWordEnd", "MoveCusorBOLIntoInsertMode", "MoveCusorBOLSelecting",
     "MoveCusorEOL", "MoveCusorEOLIntoInsertMode", "MoveCusorEOLSelecting",
     "DeleteWordBack", "DeleteWordForward", "DeleteUntilEOL", "DeleteUntilEOLIntoInsertMode",
     "DeleteUntilHOL", "Undo", "Redo", "Paste", "CutIntoInsertMode"}

\* The regions the handler of each of these commands has an arm for; every other
\* region falls to the arm _ => {}.
RegionArms ==
    [name \in EditorOnlyCommands \cup TextCommands |->
        IF name \in EditorOnlyCommands THEN {"Editor"} ELSE {"URLInput", "Editor"}]

\* The method of URLInput the URLInput arm of the handler calls. Of the word motions
\* move_cursor_right_by_word and its selecting variant are modelled, of the deletions
\* delete_until_eol; URLInput has no cut_into_insert_mode.
url_method(u, name) ==
    CASE name = "MoveCursorLeftSelecting" -> url_move_selecting(u, "Back")
      [] name = "MoveCursorRightByWord" -> url_move(u, "WordForward")
      [] name = "MoveCursorRightByWordSelecting" -> url_move_selecting(u, "WordForward")
      [] name = "MoveCursorRightSelecting" -> url_move_selecting(u, "Forward")
      [] name = "MoveCursorLeftByWordParagraph" -> url_move(u, "ParagraphBack")
      [] name = "MoveCursorRightByWordParagraph" -> url_move(u, "ParagraphForward")
      [] name = "MoveCusorBOLIntoInsertMode" -> url_move(u, "Head")
      [] name = "MoveCusorBOLSelecting" -> url_move_selecting(u, "Head")
      [] name = "MoveCusorEOL" -> url_move(u, "End")
      [] name = "MoveCusorEOLIntoInsertMode" -> url_move(u, "End")
      [] name = "MoveCusorEOLSelecting" -> url_move_selecting(u, "End")
      [] name = "DeleteUntilEOL" -> url_delete_until_eol(u)
      [] name = "DeleteUntilEOLIntoInsertMode" -> url_delete_until_eol(u)
      [] name = "Undo" -> url_undo(u)
      [] name = "Redo" -> url_redo(u)
      [] name = "Paste" -> url_paste(u)

\* The commands whose handler calls enter_insert_mode after the region's method.
IntoInsertMode ==
    {"MoveCusorBOLIntoInsertMode", "MoveCusorEOLIntoInsertMode", "DeleteUntilEOLIntoInsertMode"}

handler_without_enter_insert_mode(S, name) ==
    CASE S.focus_area \notin RegionArms[name] -> S
      [] S.focus_area = "URLInput" -> [S EXCEPT !.url_input = url_method(@, name)]

\* The handlers of the commands of RegionArms: the arm of the focused region, the
\* into-insert-mode handlers calling enter_insert_mode after the region's method. The
\* Editor arms call methods editor.rs does not define and are not modelled.
handler(S, name) ==
    CASE S.focus_area \notin RegionArms[name] -> S
      [] S.focus_area = "URLInput" /\ name \in IntoInsertMode ->
            enter_insert_mode([S EXCEPT !.url_input = url_method(@, name)])
      [] S.focus_area = "URLInput" -> [S EXCEPT !.url_input = url_method(@, name)]

\* The match of BlinkState::handle_events on one command.
Dispatch(S, command) ==
    CASE command.name = "Quit" -> [S EXCEPT !.should_quit = TRUE]
      [] command.name = "ToggleFocus" -> toggle_focus(S)
      [] command.name = "EnterInsertMode" -> enter_insert_mode(S)
      [] command.name = "EnterVisualMode" -> enter_visual_mode(S)
      [] command.name = "EnterNormalMode" -> enter_normal_mode(S)
      [] command.name = "Enter" -> enter(S)
      [] command.name = "MoveCursorUp" -> move_cursor_up(S)
      [] command.name = "MoveCursorDown" -> move_cursor_down(S)
      [] command.name = "MoveCursorLeft" -> move_cursor_left(S)
      [] command.name = "MoveCursorRight" -> move_cursor_right(S)
      [] command.name = "MoveCusorBOL" -> move_cursor_bol(S)
      [] command.name = "InsertChar" -> insert_char(S, command.ch)
      [] command.name = "DeleteBackward" -> backspace(S)
      [] command.name = "DeleteForward" -> delete_char(S)
      [] command.name = "Copy" -> copy(S)
      [] command.name = "Cut" -> cut(S)
      [] command.name \in DOMAIN RegionArms -> handler(S, command.name)

\* The commands of one event applied in order (the inner loop of handle_events).
RECURSIVE DispatchAll(_, _)
DispatchAll(S, commands) ==
    IF commands = <<>> THEN S
    ELSE DispatchAll(Dispatch(S, Head(commands)), Tail(commands))

-----------------------------------------------------------------------------
(* handle_event: from a key event to commands *)

\* The else branch of handle_event: the built-in keys, matched on the key code alone.
Fallback(code, focus) ==
    CASE code = "q" -> <<Cmd("Quit")>>
      [] code = "Tab" -> <<Cmd("ToggleFocus")>>
      [] code \in {"Up", "k"} -> IF focus = "SidePanel" THEN <<Cmd("MoveCursorUp")>> ELSE <<>>
      [] code \in {"Down", "j"} -> IF focus = "SidePanel" THEN <<Cmd("MoveCursorDown")>> ELSE <<>>
      [] code = "Left" -> IF focus = "URLInput" THEN <<Cmd("MoveCursorLeft")>> ELSE <<>>
      [] code = "Right" -> IF focus = "URLInput" THEN <<Cmd("MoveCursorRight")>> ELSE <<>>
      [] code = "Backspace" -> IF focus = "URLInput" THEN <<Cmd("DeleteBackward")>> ELSE <<>>
      [] code \in OneCharStrings -> IF focus = "URLInput" THEN <<InsertChar(code)>> ELSE <<>>
      [] OTHER -> <<>>

\* handle_event for a key press, with the mode BlinkState::handle_events passes on.
handle_event(key, focus, bindings, mode) ==
    LET command == get_command(bindings, key, mode)
    IN  IF command # None
        THEN <<command>> \o (IF command.name = "InsertChar" THEN <<command>> ELSE <<>>)
        ELSE Fallback(key.key, focus)

\* The mode of the focused region (event_mode in BlinkState::handle_events).
event_mode(S) ==
    CASE S.focus_area = "Editor" -> S.editor.mode
      [] S.focus_area = "URLInput" -> S.url_input.mode
      [] S.focus_area = "SidePanel" -> S.side_panel.mode

-----------------------------------------------------------------------------
(* Configuration: BlinkConfig::load, reload_config, check_config_updates *)

\* No error: run is looping or returned Ok(()).
NoError == <<>>

\* An anyhow error: the messages of its chain, the outermost context first.
WithContext(context, err) == <<context>> \o err

\* BlinkConfig
BlinkConfig(requests, keybindings, vim_mode) ==
    [local_requests |-> requests, keybindings |-> keybindings, vim_mode |-> vim_mode]

\* BlinkConfig::default(): the derived Default, in which vim_mode is false.
DefaultConfig == BlinkConfig(<<>>, <<>>, FALSE)

\* The file ./blink.toml: absent, unreadable, not a valid configuration, or the TOML
\* text of a configuration.
TomlFile(c) == [kind |-> "toml", config |-> c]

AbsentFile == [kind |-> "absent", config |-> DefaultConfig]

UnreadableFile == [kind |-> "unreadable", config |-> DefaultConfig]

UnparsableFile == [kind |-> "unparsable", config |-> DefaultConfig]

\* BlinkConfig::load (load_local_config) on the file.
load(file) ==
    CASE file.kind = "absent" -> [ok |-> TRUE, val |-> DefaultConfig, err |-> NoError]
      [] file.kind = "unreadable" ->
            [ok |-> FALSE, val |-> DefaultConfig,
             err |-> <<"ERROR: Reading local config at: \"blink.toml\"", "io error">>]
      [] file.kind = "unparsable" ->
            [ok |-> FALSE, val |-> DefaultConfig,
             err |-> <<"ERROR: Parsing config.", "toml error">>]
      [] file.kind = "toml" -> [ok |-> TRUE, val |-> file.config, err |-> NoError]

\* What reload_config and check_config_updates act on besides the channel.
World(S, o, c) == [app |-> S, overrides |-> o, config |-> c]

\* BlinkRenderer::update_requests
update_requests(S, new_requests) == [S EXCEPT !.side_panel.requests = new_requests]

\* BlinkRenderer::update_vim_mode
update_vim_mode(S, vim_mode) ==
    [S EXCEPT !.url_input.vim_mode = vim_mode, !.editor.vim_mode = vim_mode]

\* The end of reload_config once the requests are updated (S1) and the table is
\* rebuilt (r): the second ? returns before update_vim_mode.
reload_bound(S1, new, r) ==
    IF ~r.ok
    THEN [world |-> World(S1, r.added, new),
          err |-> WithContext("ERROR: Adding keybindings from reloaded config", r.err)]
    ELSE [world |-> World(update_vim_mode(S1, new.vim_mode), r.added, new),
          err |-> NoError]

reload_loaded_patching(W, new) ==
    reload_bound(update_requests(W.app, new.local_requests), new,
                 IF new.keybindings # <<>>
                 THEN [add_bindings_from_config(
                           FoldBindings(default_keybindings, W.overrides, 1, Len(W.overrides)),
                           new.keybindings)
                       EXCEPT !.added = W.overrides \o @]
                 ELSE [bindings |-> default_keybindings, added |-> W.overrides,
                       ok |-> TRUE, err |-> NoError])

\* reload_config after self.config = new: update_requests, then the table is the
\* defaults with the overrides of new added.
reload_loaded(W, new) ==
    reload_bound(update_requests(W.app, new.local_requests), new,
                 IF new.keybindings # <<>>
                 THEN add_bindings_from_config(default_keybindings, new.keybindings)
                 ELSE [bindings |-> default_keybindings, added |-> <<>>,
                       ok |-> TRUE, err |-> NoError])

\* reload_config on the result of BlinkConfig::load: the first ? returns the error
\* with nothing assigned.
reload_after_load(W, loaded) ==
    IF ~loaded.ok
    THEN [world |-> W,
          err |-> WithContext("ERROR: Loading configuration during reload", loaded.err)]
    ELSE reload_loaded(W, loaded.val)

\* BlinkState::reload_config with ./blink.toml holding file: the world it leaves and
\* the error it returns. Each ? returns at once and keeps what was assigned before it.
reload_config(W, file) == reload_after_load(W, load(file))

\* Path::ends_with("blink.toml") on a path given as its components.
EndsWithBlinkToml(path) == path # <<>> /\ path[Len(path)] = "blink.toml"

RECURSIVE ForPaths(_, _, _, _)
\* self.reload_config()? in the for loop: r is what reload_config returned for path i.
AfterReload(r, event, i, file) ==
    IF r.err # NoError THEN r ELSE ForPaths(r.world, event, i + 1, file)

\* The for loop of check_config_updates over event.paths, from path i on.
ForPaths(W, event, i, file) ==
    IF i > Len(event.paths) THEN [world |-> W, err |-> NoError]
    ELSE IF EndsWithBlinkToml(event.paths[i]) /\ event.kind \in {"ModifyData", "ModifyAny"}
         THEN AfterReload(reload_config(W, file), event, i, file)
         ELSE ForPaths(W, event, i + 1, file)

RECURSIVE check_config_updates(_, _, _)
\* The Ok(Ok(event)) arm once its for loop has returned r, with rest left in the channel.
AfterEvent(r, rest, file) ==
    IF r.err # NoError
    THEN [world |-> r.world, rx |-> rest, err |-> r.err]
    ELSE check_config_updates(r.world, rest, file)

\* BlinkState::check_config_updates: try_recv until the channel is empty or
\* disconnected; a watcher error is logged and skipped, and an error of reload_config
\* is returned at once with the later events still in the channel.
check_config_updates(W, rx, file) ==
    IF rx.queue = <<>> THEN [world |-> W, rx |-> rx, err |-> NoError]
    ELSE IF ~Head(rx.queue).ok
         THEN check_config_updates(W, [rx EXCEPT !.queue = Tail(@)], file)
         ELSE AfterEvent(ForPaths(W, Head(rx.queue), 1, file),
                         [rx EXCEPT !.queue = Tail(@)], file)

-----------------------------------------------------------------------------
(* Bounds and inputs *)

\* The most edits the history of URLInput's text area may hold after a key press.
MaxHistory == 2

\* The longest Editor content a key press may produce.
MaxEditorLen == 2

\* The most add_binding calls made on a table after default_keybindings().
MaxApplied == 2

\* The persisted requests a configuration of this model can hold.
Request1 == [name |-> "one", url |-> <<"a">>, body |-> <<"x", NL>>]

RequestLists == {<<>>, <<Request1>>}

Plain(key) == Input(key, FALSE, FALSE, FALSE)

\* The key events of the application specification.
AppKeys ==
    {Plain(k) : k \in {"Tab", "Esc", "Enter", "i", "v", "y", "d", "0", "q"}}

-----------------------------------------------------------------------------
(* The application: BlinkState::new, then one key event per step *)

\* BlinkState::new with a configuration that holds no keybinding override.
Init ==
    /\ overrides = <<>>
    /\ focus_area = "SidePanel"
    /\ should_quit = FALSE
    /\ \E vim_mode \in BOOLEAN, requests \in RequestLists :
          /\ url_input = URLInputNew(vim_mode)
          /\ editor = EditorNew(vim_mode)
          /\ side_panel = SidePanelNew(requests, vim_mode)
          /\ config = BlinkConfig(requests, <<>>, vim_mode)
          /\ blink_toml = TomlFile(BlinkConfig(requests, <<>>, vim_mode))
    /\ config_watcher_rx = [queue |-> <<>>, connected |-> TRUE]
    /\ run_result = NoError

Current == AppState(focus_area, should_quit, url_input, editor, side_panel)

\* The state after BlinkState::handle_events has handled the key event key.
AfterKey(key) ==
    DispatchAll(Current, handle_event(key, focus_area, key_bindings, event_mode(Current)))

\* The state run is left in by an iteration whose check_config_updates returned R;
\* its error, with the context run adds, ends run.
EndIteration(R) ==
    /\ Len(R.world.app.url_input.text_area.history.edits) <= MaxHistory
    /\ Len(R.world.app.editor.content) <= MaxEditorLen
    /\ focus_area' = R.world.app.focus_area
    /\ should_quit' = R.world.app.should_quit
    /\ url_input' = R.world.app.url_input
    /\ editor' = R.world.app.editor
    /\ side_panel' = R.world.app.side_panel
    /\ overrides' = R.world.overrides
    /\ config' = R.world.config
    /\ config_watcher_rx' = R.rx
    /\ run_result' = IF R.err = NoError THEN NoError
                     ELSE WithContext("ERROR: Checking config updates", R.err)

Iterate_ignoring_should_quit(S) ==
    /\ run_result = NoError
    /\ EndIteration(check_config_updates(World(S, overrides, config),
                                         config_watcher_rx, blink_toml))
    /\ UNCHANGED blink_toml

\* One iteration of the loop of BlinkState::run after handle_events has left the
\* application state S: check_config_updates runs next.
Iterate(S) ==
    /\ ~should_quit
    /\ run_result = NoError
    /\ EndIteration(check_config_updates(World(S, overrides, config),
                                         config_watcher_rx, blink_toml))
    /\ UNCHANGED blink_toml

\* One iteration of BlinkState::run in which poll_events returns the key event key.
KeyPress(key) == Iterate(AfterKey(key))

Next == \E key \in AppKeys : KeyPress(key)

Spec == Init /\ [][Next]_vars

-----------------------------------------------------------------------------
(* The keybinding table on its own: add_binding and add_bindings_from_config *)
(* called on BlinkState.key_bindings after default_keybindings()             *)

\* The fourth component of a call in overrides that no configuration entry made.
NoEntry == [key |-> "", modifiers |-> <<>>, command |-> "", mode |-> ""]

\* KeybindingConfig entries (config/src/lib.rs).
CfgJDown == [key |-> "j", modifiers |-> <<>>, command |-> "MoveCursorDown", mode |-> "normal"]

CfgJUp == [key |-> "j", modifiers |-> <<>>, command |-> "MoveCursorUp", mode |-> "normal"]

CfgJQuit == [key |-> "J", modifiers |-> <<>>, command |-> "Quit", mode |-> "Normal"]

CfgZVisual == [key |-> "z", modifiers |-> <<>>, command |-> "MoveCursorLeft", mode |-> "visual"]

CfgUnknown == [key |-> "z", modifiers |-> <<>>, command |-> "Nope", mode |-> "insert"]

ConfigEntries == {CfgJDown, CfgJUp, CfgJQuit, CfgZVisual, CfgUnknown}

\* The configurations applied in one call: one entry, or two.
Configs == {<<a>> : a \in ConfigEntries} \cup {<<a, b>> : a \in {CfgJDown, CfgJUp}, b \in ConfigEntries}

\* The chords, commands and modes of the direct add_binding calls.
TableChords == {Plain("j"), Plain("z")}

TableCommands == {Cmd("MoveCursorUp"), Cmd("Quit")}

\* One call of KeybindingMap::add_binding on the application's table.
AddBinding(input, command, mode) ==
    /\ Len(overrides) < MaxApplied
    /\ overrides' = Append(overrides, <<input, command, mode, NoEntry>>)
    /\ UNCHANGED <<focus_area, should_quit, url_input, editor, side_panel,
                       config, blink_toml, config_watcher_rx, run_result>>

\* One call of KeybindingMap::add_bindings_from_config on the application's table:
\* the entries before the first one that does not parse are added.
AddBindingsFromConfig(config_bindings) ==
    LET r == add_bindings_from_config(key_bindings, config_bindings)
    IN  /\ Len(overrides) + Len(r.added) <= MaxApplied
        /\ overrides' = overrides \o r.added
        /\ UNCHANGED <<focus_area, should_quit, url_input, editor, side_panel,
                       config, blink_toml, config_watcher_rx, run_result>>

NextTable ==
    \/ \E input \in TableChords, command \in TableCommands, mode \in Modes :
          AddBinding(input, command, mode)
    \/ \E config_bindings \in Configs : AddBindingsFromConfig(config_bindings)

SpecTable == Init /\ [][NextTable]_vars

\* The table add_bindings_from_config returns is the table of the calls it lists.
TableAgrees ==
    \A config_bindings \in Configs :
        LET r == add_bindings_from_config(key_bindings, config_bindings)
        IN  r.bindings = FoldBindings(key_bindings, r.added, 1, Len(r.added))

-----------------------------------------------------------------------------
(* Properties of the keybinding table *)

\* The modes a binding can be registered for besides Any.
ExactModes == {"Normal", "Insert", "Visual"}

\* The bindings the application's table holds for chord c.
BindingsAt(c) == IF c \in DOMAIN key_bindings THEN key_bindings[c] ELSE <<>>

HasMode(bs, m) == \E i \in DOMAIN bs : bs[i][2] = m

CommandsFor(bs, m) == {bs[i][1] : i \in {k \in DOMAIN bs : bs[k][2] = m}}

\* C1: when a chord has both a binding registered for exactly mode m and a binding
\* registered for Any, get_command(chord, m) returns a command registered for
\* exactly m, whichever of the two was inserted first.
C1_ExactModeWins ==
    \A c \in TableChords, m \in ExactModes :
        LET bs == BindingsAt(c)
        IN  (HasMode(bs, m) /\ HasMode(bs, "Any")) =>
                get_command(key_bindings, c, m) \in CommandsFor(bs, m)

\* A chord holds an Any binding inserted before a binding for an exact mode, with a
\* different command.
C1_Witness ==
    \E c \in TableChords :
        LET bs == BindingsAt(c)
        IN  \E i, k \in DOMAIN bs :
                i < k /\ bs[i][2] = "Any" /\ bs[k][2] \in ExactModes /\ bs[i][1] # bs[k][1]

\* C2: a chord with no binding for the current mode but with a binding registered
\* for Any resolves to an Any-registered command, and get_command returns nothing
\* only when the chord has neither kind of binding.
C2_AnyFallback ==
    \A c \in TableChords, m \in ExactModes :
        LET bs == BindingsAt(c)
            r == get_command(key_bindings, c, m)
        IN  /\ (~HasMode(bs, m) /\ HasMode(bs, "Any")) => r \in CommandsFor(bs, "Any")
            /\ r = None => (~HasMode(bs, m) /\ ~HasMode(bs, "Any"))

\* C3: after add_bindings_from_config, the (chord, mode) pair of an override resolves
\* to the command of the override applied last for that pair, also when the default
\* table or an earlier override already bound the pair.
C3_LastOverrideWins ==
    \A i \in DOMAIN overrides :
        LET o == overrides[i]
        IN  (/\ o[4] # NoEntry
             /\ \A k \in DOMAIN overrides :
                    k > i => ~(overrides[k][1] = o[1] /\ overrides[k][3] = o[3]))
            => get_command(key_bindings, o[1], o[3]) = o[2]

\* C4: with the default table and the override {key "j", no modifiers, command
\* "MoveCursorDown", mode "normal"} applied to it (once or again), chord j resolves
\* to MoveCursorDown in Normal mode and to no command in Insert mode.
C4_IdempotentOverride ==
    (\A i \in DOMAIN overrides : overrides[i][4] = CfgJDown) =>
        /\ get_command(key_bindings, Plain("j"), "Normal") = Cmd("MoveCursorDown")
        /\ get_command(key_bindings, Plain("j"), "Insert") = None

\* The override of C4 has been applied to the default table.
C4_Witness ==
    /\ overrides # <<>>
    /\ \A i \in DOMAIN overrides : overrides[i][4] = CfgJDown

-----------------------------------------------------------------------------
(* Properties of the application *)

\* The commands handle_event yields for key in the current state.
CommandsOf(key) == handle_event(key, focus_area, key_bindings, event_mode(Current))

\* Some command of handle_event for key is an InsertChar.
InsertsChar(key) == \E i \in DOMAIN CommandsOf(key) : CommandsOf(key)[i].name = "InsertChar"

\* C5: URLInput in Visual mode always has a selection start, and the step that takes
\* it out of Visual mode leaves no selection start behind.
C5_VisualHasAnchor ==
    /\ [](url_input.mode = "Visual" => is_selecting(url_input.text_area))
    /\ [][(url_input.mode = "Visual" /\ url_input'.mode # "Visual")
            => ~is_selecting(url_input'.text_area)]_vars

\* C6: a region whose vim emulation is disabled has mode Any, from construction on
\* and after every command.
C6_VimOffModeAny ==
    /\ ~url_input.vim_mode => url_input.mode = "Any"
    /\ ~editor.vim_mode => editor.mode = "Any"
    /\ ~side_panel.vim_mode => side_panel.mode = "Any"

\* C7: the Editor's cursor line is a line of the buffer and its cursor column is at
\* most the length of that line (the line break counted).
C7_CursorInBounds ==
    /\ 0 <= editor.cursor_y /\ editor.cursor_y < len_lines(editor.content)
    /\ 0 <= editor.cursor_x /\ editor.cursor_x <= line_len_chars(editor.content, editor.cursor_y)

\* C8: the key event d on URLInput in Visual mode (Cut) leaves URLInput in Normal mode.
C8_CutEndsVisual ==
    [][(focus_area = "URLInput" /\ url_input.mode = "Visual" /\ KeyPress(Plain("d")))
        => url_input'.mode = "Normal"]_vars

\* C9: no key event handled while the focused text region is in Normal mode yields an
\* InsertChar command.
C9_NoInsertCharInNormal ==
    [][\A key \in AppKeys :
          (focus_area \in {"URLInput", "Editor"} /\ event_mode(Current) = "Normal" /\ KeyPress(key))
            => ~InsertsChar(key)]_vars

\* C10: a key event whose chord resolves to no command while the focused region is in
\* Normal or Visual mode changes nothing.
C10_UnresolvedChangesNothing ==
    [][\A key \in AppKeys :
          (/\ event_mode(Current) \in {"Normal", "Visual"}
           /\ get_command(key_bindings, key, event_mode(Current)) = None
           /\ KeyPress(key))
            => UNCHANGED vars]_vars

-----------------------------------------------------------------------------
(* The application with its configuration watcher: ./blink.toml is rewritten and *)
(* the watcher thread sends events while run loops                               *)

\* The most events in flight in config_watcher_rx.
MaxEvents == 2

\* KeybindingConfig entries whose key, or second modifier, is no token of parse_key.
CfgBadKey == [key |-> "Bogus", modifiers |-> <<>>, command |-> "Quit", mode |-> "normal"]

CfgBadModifier ==
    [key |-> "j", modifiers |-> <<"Ctrl", "Hyper">>, command |-> "Quit", mode |-> "normal"]

\* What ./blink.toml can hold after it is written.
TomlFiles ==
    {AbsentFile, UnreadableFile, UnparsableFile,
     TomlFile(BlinkConfig(<<Request1>>, <<CfgJUp>>, TRUE)),
     TomlFile(BlinkConfig(<<Request1>>, <<CfgJUp, CfgUnknown>>, FALSE)),
     TomlFile(BlinkConfig(<<>>, <<CfgBadKey>>, TRUE)),
     TomlFile(BlinkConfig(<<>>, <<CfgJQuit, CfgBadModifier>>, TRUE))}

BlinkTomlPath == <<".", "blink.toml">>

\* The notify events a write of ./blink.toml is reported as.
ModifyEvents ==
    {[ok |-> TRUE, kind |-> k, paths |-> <<BlinkTomlPath>>] : k \in {"ModifyData", "ModifyAny"}}

\* The other results the watcher sends: an error, an event of another kind, an
\* event for another file of the directory.
OtherEvents ==
    {[ok |-> FALSE, kind |-> "Error", paths |-> <<>>],
     [ok |-> TRUE, kind |-> "Create", paths |-> <<BlinkTomlPath>>],
     [ok |-> TRUE, kind |-> "ModifyData", paths |-> <<<<".", "notes.txt">>>>]}

\* The key events of this specification.
ReloadKeys == {Plain("Tab"), Plain("j"), Plain("q")}

\* ./blink.toml is written; the watcher, if it is alive, reports it.
WriteConfig(file, event) ==
    /\ ~should_quit
    /\ run_result = NoError
    /\ Len(config_watcher_rx.queue) < MaxEvents
    /\ blink_toml' = file
    /\ config_watcher_rx' =
          IF config_watcher_rx.connected
          THEN [config_watcher_rx EXCEPT !.queue = Append(@, event)]
          ELSE config_watcher_rx
    /\ UNCHANGED <<overrides, focus_area, should_quit, url_input, editor, side_panel,
                   config, run_result>>

WatcherEvent_clearing_requests(event) ==
    /\ ~should_quit
    /\ run_result = NoError
    /\ config_watcher_rx.connected
    /\ Len(config_watcher_rx.queue) < MaxEvents
    /\ config_watcher_rx' = [config_watcher_rx EXCEPT !.queue = Append(@, event)]
    /\ side_panel' = [side_panel EXCEPT !.requests = <<>>]
    /\ UNCHANGED <<overrides, focus_area, should_quit, url_input, editor,
                   config, blink_toml, run_result>>

\* The watcher thread sends another result.
WatcherEvent(event) ==
    /\ ~should_quit
    /\ run_result = NoError
    /\ config_watcher_rx.connected
    /\ Len(config_watcher_rx.queue) < MaxEvents
    /\ config_watcher_rx' = [config_watcher_rx EXCEPT !.queue = Append(@, event)]
    /\ UNCHANGED <<overrides, focus_area, should_quit, url_input, editor, side_panel,
                   config, blink_toml, run_result>>

\* The watcher thread ends (its assert or Watcher::new fails) and drops the sender.
WatcherStops ==
    /\ ~should_quit
    /\ run_result = NoError
    /\ config_watcher_rx.connected
    /\ config_watcher_rx' = [config_watcher_rx EXCEPT !.connected = FALSE]
    /\ UNCHANGED <<overrides, focus_area, should_quit, url_input, editor, side_panel,
                   config, blink_toml, run_result>>

\* One iteration of BlinkState::run in which poll_events returns no event.
Idle == Iterate(Current)

NextReload ==
    \/ \E key \in ReloadKeys : KeyPress(key)
    \/ Idle
    \/ \E file \in TomlFiles, event \in ModifyEvents : WriteConfig(file, event)
    \/ \E event \in OtherEvents : WatcherEvent(event)
    \/ WatcherStops

SpecReload == Init /\ [][NextReload]_vars

-----------------------------------------------------------------------------
(* Reloading the configuration while run loops *)

\* The error run returns when reload_config failed on an override of the file.
OverrideError(err) ==
    /\ Len(err) = 4
    /\ err[2] = "ERROR: Adding keybindings from reloaded config"

\* C11: a configuration reload that fails with a parse error (a malformed key,
\* modifier or command string) is aborted, and the keybinding table, the request list
\* and the stored configuration are exactly those from before the reload. Stated for
\* an iteration that finds one event in the channel, so that the failed reload is the
\* only one of the step.
C11_FailedReloadKeepsState ==
    [][(/\ run_result = NoError
        /\ Len(config_watcher_rx.queue) = 1
        /\ OverrideError(run_result'))
       => (/\ key_bindings' = key_bindings
           /\ side_panel'.requests = side_panel.requests
           /\ config' = config)]_vars

\* C12: a configuration or watcher failure while the main loop runs (an unreadable or
\* unparsable blink.toml, an invalid override, a watcher error, a disconnected
\* channel) is logged and never ends the run loop: run returns no error.
C12_RunKeepsRunning == run_result = NoError

\* The key, modifier and command strings of the entries that parse_key and
\* parse_blink_command have no token for, compared in lower case.
KeyTokens == {"enter", "backspace", "tab", "esc", "escape", "up", "down", "left", "right"}

ModifierTokens == {"control", "ctrl", "alt", "shift"}

Unrecognized(config_bindings) ==
    {config_bindings[i].key : i \in {j \in DOMAIN config_bindings :
        to_lowercase(config_bindings[j].key) \notin KeyTokens \cup OneCharStrings}}
    \cup {config_bindings[i].command : i \in {j \in DOMAIN config_bindings :
        to_lowercase(config_bindings[j].command) \notin DOMAIN CommandNames}}
    \cup UNION {{config_bindings[i].modifiers[m] : m \in {n \in DOMAIN config_bindings[i].modifiers :
        to_lowercase(config_bindings[i].modifiers[n]) \notin ModifierTokens}} :
        i \in DOMAIN config_bindings}

\* An iteration of run that takes one write event of ./blink.toml from the channel
\* while the file holds a configuration, so that reload_config applies its overrides.
ReloadsOverrides ==
    /\ run_result = NoError
    /\ ~should_quit
    /\ Len(config_watcher_rx.queue) = 1
    /\ Head(config_watcher_rx.queue) \in ModifyEvents
    /\ config_watcher_rx'.queue = <<>>
    /\ blink_toml' = blink_toml
    /\ blink_toml.kind = "toml"

\* C14: add_bindings_from_config fails whenever the key, a modifier or the command of
\* an entry is no recognized token, tokens being compared case-insensitively, and the
\* message of the error ends with an offending string exactly as the configuration
\* writes it; with recognized tokens only, in whatever case, it does not fail.
C14_UnrecognizedTokenEchoed ==
    [][ReloadsOverrides =>
          IF Unrecognized(blink_toml.config.keybindings) = {}
          THEN run_result' = NoError
          ELSE /\ OverrideError(run_result')
               /\ run_result'[3] \in {"Unknown key code: ", "Unknown key modifier: ",
                                      "Unknown BlinkCommand: "}
               /\ run_result'[4] \in Unrecognized(blink_toml.config.keybindings)]_vars

\* The reload of a file whose second entry has the command "Nope" has ended run with
\* the message "Unknown BlinkCommand: Nope".
C14_Witness ==
    /\ OverrideError(run_result)
    /\ run_result[3] = "Unknown BlinkCommand: "
    /\ run_result[4] = "Nope"
    /\ to_lowercase(run_result[4]) # run_result[4]

-----------------------------------------------------------------------------
(* The application with the external editor: BlinkCommand::OpenInEditor *)

\* No panic: the handler returned.
NoPanic == <<>>

\* A panic: the message the process ends with.
Panic(message) == <<"panicked", message>>

\* What running "vim" on the temporary file can end in: the program cannot be
\* spawned, it exits with a non-zero status, it exits with success without writing the
\* file (which NamedTempFile's drop has removed), or it exits with success having
\* written body.
EditorOutcomes ==
    {[kind |-> "spawn_failed", body |-> <<>>],
     [kind |-> "nonzero", body |-> <<"z">>],
     [kind |-> "unsaved", body |-> <<>>]}
    \cup {[kind |-> "saved", body |-> b] : b \in {<<>>, <<"z">>, <<"z", NL>>}}

\* BlinkState::open_in_editor: expect and assert! panic; otherwise the Editor's buffer
\* is replaced by the lines of the file, the cursor at the end of what was inserted.
open_in_editor(S, outcome) ==
    CASE outcome.kind = "spawn_failed" ->
            [app |-> S, panic |-> Panic("Failed to spawn editor")]
      [] outcome.kind = "nonzero" ->
            [app |-> S,
             panic |-> Panic("Editor exited with non-zero status. Keeping old content.")]
      [] outcome.kind = "unsaved" ->
            [app |-> S, panic |-> Panic("Failed to read edited file")]
      [] outcome.kind = "saved" ->
            [app |-> [S EXCEPT
                        !.editor.content = BodyLines(outcome.body),
                        !.editor.cursor_y = len_lines(BodyLines(outcome.body)) - 1,
                        !.editor.cursor_x =
                            Len(BodyLines(outcome.body))
                            - line_to_char(BodyLines(outcome.body),
                                           len_lines(BodyLines(outcome.body)) - 1)],
             panic |-> NoPanic]

\* The match of BlinkState::handle_events on one command, the OpenInEditor arm
\* included: outcome is what the external editor does if it is run.
DispatchOpening(S, command, outcome) ==
    IF command.name = "OpenInEditor"
    THEN IF S.focus_area = "Editor"
         THEN open_in_editor(S, outcome)
         ELSE [app |-> S, panic |-> NoPanic]
    ELSE [app |-> Dispatch(S, command), panic |-> NoPanic]

\* The inner loop of handle_events; a panic ends it.
RECURSIVE DispatchAllOpening(_, _, _)
DispatchAllOpening(P, commands, outcome) ==
    IF commands = <<>> \/ P.panic # NoPanic THEN P
    ELSE DispatchAllOpening(DispatchOpening(P.app, Head(commands), outcome),
                            Tail(commands), outcome)

\* handle_events on the key event key.
AfterKeyOpening(key, outcome) ==
    DispatchAllOpening([app |-> Current, panic |-> NoPanic],
                       handle_event(key, focus_area, key_bindings, event_mode(Current)),
                       outcome)

\* A panic in handle_events unwinds through run and ends the process.
Unwind(P) ==
    /\ ~should_quit
    /\ run_result = NoError
    /\ run_result' = P.panic
    /\ UNCHANGED <<overrides, focus_area, should_quit, url_input, editor, side_panel,
                   config, blink_toml, config_watcher_rx>>

\* What follows handle_events in the iteration: the rest of the loop body, or the panic.
IterateOrUnwind(P) ==
    \/ P.panic = NoPanic /\ Iterate(P.app)
    \/ P.panic # NoPanic /\ Unwind(P)

\* One iteration of BlinkState::run in which poll_events returns the key event key,
\* the external editor ending in outcome if the key opens it.
KeyPressOpening(key, outcome) == IterateOrUnwind(AfterKeyOpening(key, outcome))

\* The key events of this specification; Alt+Enter is the chord of OpenInEditor.
EditorKeys ==
    {Plain("Tab"), Plain("Enter"), Plain("i"), Plain("Esc"), Plain("v"), Plain("q"),
     Input("Enter", FALSE, TRUE, FALSE)}

NextEditor == \E key \in EditorKeys, outcome \in EditorOutcomes : KeyPressOpening(key, outcome)

SpecEditor == Init /\ [][NextEditor]_vars

\* C13: when the external editor exits with a non-zero status, open_in_editor aborts
\* that operation only and the failure does not go beyond it: run is never ended by it.
C13_EditorFailureContained ==
    run_result # Panic("Editor exited with non-zero status. Keeping old content.")

-----------------------------------------------------------------------------
(* The application with three persisted requests: the SidePanel's list, loading a *)
(* request, moving the focus                                                      *)

Request2 == [name |-> "two", url |-> <<"b">>, body |-> <<"y", "z">>]

Request3 == [name |-> "three", url |-> <<"c">>, body |-> <<>>]

\* The request lists of this specification.
NavRequestLists == {<<>>, <<Request1, Request2, Request3>>}

\* BlinkState::new with a configuration that holds the requests and no override.
InitNav ==
    /\ overrides = <<>>
    /\ focus_area = "SidePanel"
    /\ should_quit = FALSE
    /\ \E vim_mode \in BOOLEAN, requests \in NavRequestLists :
          /\ url_input = URLInputNew(vim_mode)
          /\ editor = EditorNew(vim_mode)
          /\ side_panel = SidePanelNew(requests, vim_mode)
          /\ config = BlinkConfig(requests, <<>>, vim_mode)
          /\ blink_toml = TomlFile(BlinkConfig(requests, <<>>, vim_mode))
    /\ config_watcher_rx = [queue |-> <<>>, connected |-> TRUE]
    /\ run_result = NoError

\* The key events of this specification.
NavKeys == {Plain(k) : k \in {"Tab", "Enter", "j", "k", "i", "v", "Esc", "q"}}

NextNav == \E key \in NavKeys : KeyPress(key)

SpecNav == InitNav /\ [][NextNav]_vars

\* The region after each region in the cycle of the focus.
NextFocus == [f \in FocusAreas |-> CASE f = "SidePanel" -> "URLInput"
                                     [] f = "URLInput" -> "Editor"
                                     [] f = "Editor" -> "SidePanel"]

\* C15: ToggleFocus moves the focus along SidePanel -> URLInput -> Editor -> SidePanel,
\* so three of them restore the focus, and changes nothing else: no mode, buffer,
\* cursor, selection or selected index is reset by entering or leaving a region.
C15_ToggleFocusCycles ==
    /\ Dispatch(Current, Cmd("ToggleFocus")) =
          [Current EXCEPT !.focus_area = NextFocus[focus_area]]
    /\ Dispatch(Dispatch(Dispatch(Current, Cmd("ToggleFocus")), Cmd("ToggleFocus")),
                Cmd("ToggleFocus")) = Current
    /\ [f \in FocusAreas |-> NextFocus[NextFocus[NextFocus[f]]]] = [f \in FocusAreas |-> f]

\* URLInput was left in Visual mode with a selection and the Editor is focused.
C15_Witness ==
    /\ focus_area = "Editor"
    /\ url_input.mode = "Visual"
    /\ is_selecting(url_input.text_area)
    /\ side_panel.selected_request = 1

\* The item at the SidePanel's selected index, in a one-element set; empty if none.
SelectedItem ==
    {side_panel.requests[i] : i \in {j \in DOMAIN side_panel.requests :
                                        j = side_panel.selected_request + 1}}

\* C16 as stated: Enter on the SidePanel with an item at the selected index makes
\* URLInput's buffer that item's url and the Editor's buffer exactly that item's body
\* and moves the focus to the Editor; without an item nothing changes.
C16_EnterLoadsExactBody ==
    focus_area = "SidePanel" =>
        /\ \A item \in SelectedItem :
              /\ Dispatch(Current, Cmd("Enter")).url_input.text_area.text = item.url
              /\ Dispatch(Current, Cmd("Enter")).editor.content = item.body
              /\ Dispatch(Current, Cmd("Enter")).focus_area = "Editor"
        /\ SelectedItem = {} => Dispatch(Current, Cmd("Enter")) = Current

\* The text a buffer holds for a body: its lines, that is, the body without a final
\* line break.
WithoutFinalLineBreak(body) ==
    IF Len(body) > 0 /\ body[Len(body)] = "\n" THEN SubSeq(body, 1, Len(body) - 1) ELSE body

\* C16 amended: Enter on the SidePanel with an item at the selected index makes
\* URLInput's buffer that item's url and the Editor's buffer the lines of that item's
\* body (the body without a final line break), whatever the buffers held, and moves
\* the focus to the Editor; without an item nothing changes.
C16_EnterLoadsBodyLines ==
    focus_area = "SidePanel" =>
        /\ \A item \in SelectedItem :
              /\ Dispatch(Current, Cmd("Enter")).url_input.text_area.text = item.url
              /\ Dispatch(Current, Cmd("Enter")).editor.content = WithoutFinalLineBreak(item.body)
              /\ Dispatch(Current, Cmd("Enter")).focus_area = "Editor"
        /\ SelectedItem = {} => Dispatch(Current, Cmd("Enter")) = Current

\* The second request is loaded over the first: the SidePanel's index is 1, the
\* buffers hold the url and the body of the second request, the Editor is focused.
C16_Witness ==
    /\ focus_area = "Editor"
    /\ side_panel.selected_request = 1
    /\ url_input.text_area.text = Request2.url
    /\ editor.content = Request2.body

\* C18: the SidePanel's selected index saturates at both ends: MoveCursorDown at the
\* last index and on an empty list, and MoveCursorUp at index 0, leave it unchanged.
C18_SelectedIndexSaturates ==
    focus_area = "SidePanel" =>
        /\ side_panel.selected_request >= Len(side_panel.requests) - 1
              => Dispatch(Current, Cmd("MoveCursorDown")) = Current
        /\ side_panel.selected_request = 0
              => Dispatch(Current, Cmd("MoveCursorUp")) = Current

\* The SidePanel is focused with three items and the last one selected.
C18_Witness ==
    /\ focus_area = "SidePanel"
    /\ Len(side_panel.requests) = 3
    /\ side_panel.selected_request = 2

\* The application state with the Editor in Insert mode.
EditorInInsert == [Current EXCEPT !.editor.mode = "Insert"]

\* C19: with the Editor in mode Any (vim emulation disabled) insert and delete commands
\* are applied with no mode gate: DeleteBackward and Enter leave the buffer and the
\* cursor they leave in Insert mode.
C19_AnyModeEditsApply ==
    (focus_area = "Editor" /\ editor.mode = "Any") =>
        \A command \in {Cmd("DeleteBackward"), Cmd("Enter")} :
            /\ Dispatch(Current, command).editor.content =
                  Dispatch(EditorInInsert, command).editor.content
            /\ Dispatch(Current, command).editor.cursor_x =
                  Dispatch(EditorInInsert, command).editor.cursor_x
            /\ Dispatch(Current, command).editor.cursor_y =
                  Dispatch(EditorInInsert, command).editor.cursor_y

-----------------------------------------------------------------------------
(* Commands that have no meaning for the focused region *)

\* The variants of BlinkCommand that BlinkState::handle_events matches, InsertChar
\* with two of its characters.
BlinkCommands ==
    {Cmd(name) : name \in {"Quit", "ToggleFocus", "EnterInsertMode", "EnterVisualMode",
                           "EnterNormalMode", "Enter", "MoveCursorUp", "MoveCursorDown",
                           "MoveCursorLeft", "MoveCursorRight", "MoveCusorBOL",
                           "DeleteBackward", "DeleteForward", "Copy", "Cut", "OpenInEditor"}
                          \cup EditorOnlyCommands \cup TextCommands}
    \cup {InsertChar("a"), InsertChar("q")}

\* The commands the SidePanel has a meaning for.
SidePanelCommands ==
    {Cmd("Quit"), Cmd("ToggleFocus"), Cmd("MoveCursorUp"), Cmd("MoveCursorDown"), Cmd("Enter")}

\* C17: while the SidePanel is focused, every command other than Quit, ToggleFocus,
\* MoveCursorUp, MoveCursorDown and Enter is a no-op and never an error: it leaves the
\* focus, the modes, the buffers, the selected index and the quit flag unchanged, and
\* its handler returns.
C17_SidePanelIgnoresCommands ==
    focus_area = "SidePanel" =>
        \A command \in BlinkCommands \ SidePanelCommands, outcome \in EditorOutcomes :
            /\ DispatchOpening(Current, command, outcome).app = Current
            /\ DispatchOpening(Current, command, outcome).panic = NoPanic

\* The SidePanel is focused in Normal mode, with the second item selected, while
\* URLInput is in Insert mode and the Editor holds the body of a loaded request.
C17_Witness ==
    /\ focus_area = "SidePanel"
    /\ side_panel.mode = "Normal"
    /\ side_panel.selected_request = 1
    /\ url_input.mode = "Insert"
    /\ editor.content # <<>>

-----------------------------------------------------------------------------
(* URLInput, the single-line buffer, under the vertical and paragraph motions *)

\* The key events of this specification while URLInput is focused.
UrlKeys ==
    {Plain(k) : k \in {"h", "l", "j", "k", "v", "Esc", "o", "Up", "Left"}}
    \cup {Input("b", FALSE, FALSE, TRUE), Input("w", FALSE, FALSE, TRUE),
          Input("O", FALSE, FALSE, TRUE), Input("Down", TRUE, FALSE, FALSE)}

\* Tab is pressed once, which focuses URLInput; the keys of UrlKeys follow.
NextUrl ==
    \/ focus_area = "SidePanel" /\ KeyPress(Plain("Tab"))
    \/ focus_area = "URLInput" /\ \E key \in UrlKeys : KeyPress(key)

SpecUrl == Init /\ [][NextUrl]_vars

\* The vertical motions, the paragraph motions and the commands that open a line.
VerticalCommands ==
    {Cmd(name) : name \in {"MoveCursorUp", "MoveCursorDown", "MoveCursorUpParagraph",
                           "MoveCursorDownParagraph", "MoveCursorLeftByWordParagraph",
                           "MoveCursorRightByWordParagraph", "MoveCursorUpParagraphSelecting",
                           "MoveCursorDownParagraphSelecting", "Newline", "NewlineUp"}}

\* C20: while URLInput, the single-line buffer, is focused, MoveCursorUp,
\* MoveCursorDown, every paragraph motion and Newline / NewlineUp leave its text and
\* its cursor unchanged.
C20_SingleLineIgnoresVertical ==
    focus_area = "URLInput" =>
        \A command \in VerticalCommands :
            /\ Dispatch(Current, command).url_input.text_area.text = url_input.text_area.text
            /\ Dispatch(Current, command).url_input.text_area.cursor = url_input.text_area.cursor

\* URLInput is focused in Visual mode with a selection and the cursor inside the
\* text, away from both ends.
C20_Witness ==
    /\ focus_area = "URLInput"
    /\ url_input.mode = "Visual"
    /\ is_selecting(url_input.text_area)
    /\ 0 < url_input.text_area.cursor
    /\ url_input.text_area.cursor < Len(url_input.text_area.text)
-----------------------------------------------------------------------------
(* URLInput under the selecting motions, the plain motions and the mode changes *)

Shift(key) == Input(key, FALSE, FALSE, TRUE)

\* The key events of this specification while URLInput is focused.
SelKeys ==
    {Plain(k) : k \in {"i", "Esc", "v", "Left", "Right"}}
    \cup {Shift(k) : k \in {"Left", "Right", "Home", "End"}}

\* Tab is pressed once, which focuses URLInput; the keys of SelKeys follow.
NextSel ==
    \/ focus_area = "SidePanel" /\ KeyPress(Plain("Tab"))
    \/ focus_area = "URLInput" /\ \E key \in SelKeys : KeyPress(key)

SpecSel == Init /\ [][NextSel]_vars

\* The selecting motions URLInput implements by a move of the model.
SelectingMotions ==
    {Cmd(name) : name \in {"MoveCursorLeftSelecting", "MoveCursorRightSelecting",
                           "MoveCusorBOLSelecting", "MoveCusorEOLSelecting"}}

\* The motions that do not select.
PlainMotions ==
    {Cmd(name) : name \in {"MoveCursorLeft", "MoveCursorRight", "MoveCusorBOL", "MoveCusorEOL",
                           "MoveCursorLeftByWordParagraph", "MoveCursorRightByWordParagraph"}}

\* The commands that change the mode and nothing else.
ModeChanges == {Cmd("EnterInsertMode"), Cmd("EnterNormalMode"), Cmd("EnterVisualMode")}

\* The selection of URLInput after the command.
SelAfter(command) == Dispatch(Current, command).url_input.text_area.sel

\* A selecting motion starts a selection at the cursor it moves from unless one is
\* active, whose start it keeps.
SelectingKeepsAnchor ==
    \A command \in SelectingMotions :
        /\ SelAfter(command).active
        /\ SelAfter(command).col = IF is_selecting(url_input.text_area)
                                   THEN url_input.text_area.sel.col
                                   ELSE url_input.text_area.cursor

-----------------------------------------------------------------------------
(* The watcher thread and the control loop *)

\* A step of the loop of BlinkState::run: handle_events, then check_config_updates.
LoopIteration == (\E key \in ReloadKeys : KeyPress(key)) \/ Idle

\* What the control loop owns: the keybinding table, the buffers with the focus and
\* the quit flag, the request list and the stored configuration.
LoopOwned == <<overrides, focus_area, should_quit, url_input, editor, side_panel, config>>

\* check_config_updates found a notification in the channel and took it.
TookNotification ==
    /\ config_watcher_rx.queue # <<>>
    /\ Len(config_watcher_rx'.queue) < Len(config_watcher_rx.queue)

\* C22: the keybinding table, the buffers and the request list are changed by the
\* control loop only: a step of the watcher thread (a notification enqueued, the
\* sender dropped) leaves them as they are, and the table and the request list change
\* only in an iteration whose check_config_updates took a notification from the
\* channel.
C22_OnlyTheLoopMutates ==
    [][/\ ~LoopIteration => UNCHANGED LoopOwned
       /\ (overrides' # overrides \/ side_panel'.requests # side_panel.requests)
             => LoopIteration /\ TookNotification]_vars

\* Notifications are pending in the channel while the table holds an override and the
\* request list holds a request, both put there by an earlier reload.
C22_Witness ==
    /\ config_watcher_rx.queue # <<>>
    /\ overrides # <<>>
    /\ side_panel.requests # <<>>
    /\ focus_area # "SidePanel"

\* The notification makes check_config_updates call reload_config: an event of kind
\* Modify(Data) or Modify(Any) with a path that ends in blink.toml.
Relevant(event) ==
    /\ event.ok
    /\ event.kind \in {"ModifyData", "ModifyAny"}
    /\ \E i \in DOMAIN event.paths : EndsWithBlinkToml(event.paths[i])

\* C23: in every iteration of the main loop check_config_updates takes every
\* notification pending in the watcher channel, so that the channel is empty
\* when it returns, and it reloads only for a notification whose path ends in
\* blink.toml and whose kind is a data/any modification: with no such notification
\* pending, the table, the request list and the stored configuration are unchanged.
C23_DrainsEveryNotification ==
    [][LoopIteration =>
          /\ config_watcher_rx'.queue = <<>>
          /\ (\A i \in DOMAIN config_watcher_rx.queue : ~Relevant(config_watcher_rx.queue[i]))
                => UNCHANGED <<overrides, config>>
                   /\ side_panel'.requests = side_panel.requests]_vars
-----------------------------------------------------------------------------
(* Undo and redo on URLInput *)

\* The commands that can change the text of URLInput by one call of its text area.
EditCommands ==
    {InsertChar("a"), Cmd("DeleteBackward"), Cmd("DeleteForward"), Cmd("Cut"), Cmd("Paste")}

\* The text area of URLInput after the commands are dispatched in order.
TextAreaAfter(commands) == DispatchAll(Current, commands).url_input.text_area

\* The text and the cursor of a text area.
TextAndCursor(ta) == <<ta.text, ta.cursor>>

\* C24: on URLInput, Undo after a single edit that changed the buffer restores the
\* text and the cursor position from before the edit, and Redo after that Undo
\* restores the text and the cursor from after the edit; Undo with nothing to undo
\* and Redo with nothing to redo change nothing; a movement command records no undo
\* step.
C24_UndoRestoresTextAndCursor ==
    focus_area = "URLInput" =>
        /\ \A edit \in EditCommands :
              TextAreaAfter(<<edit>>).text # url_input.text_area.text =>
                 /\ TextAndCursor(TextAreaAfter(<<edit, Cmd("Undo")>>)) =
                       TextAndCursor(url_input.text_area)
                 /\ TextAndCursor(TextAreaAfter(<<edit, Cmd("Undo"), Cmd("Redo")>>)) =
                       TextAndCursor(TextAreaAfter(<<edit>>))
        /\ url_input.text_area.history.index = 0 =>
              TextAreaAfter(<<Cmd("Undo")>>) = url_input.text_area
        /\ url_input.text_area.history.index = Len(url_input.text_area.history.edits) =>
              TextAreaAfter(<<Cmd("Redo")>>) = url_input.text_area
        /\ \A motion \in PlainMotions \cup SelectingMotions :
              TextAreaAfter(<<motion>>).history = url_input.text_area.history

\* C25: on URLInput, Cut followed at once by Paste leaves the text of the buffer as
\* it was before the Cut, whatever the selection and also when there is none.
C25_CutThenPasteRestoresText ==
    focus_area = "URLInput" =>
        TextAreaAfter(<<Cmd("Cut"), Cmd("Paste")>>).text = url_input.text_area.text
-----------------------------------------------------------------------------
(* The word motion and the forward deletion on URLInput *)

HelloWorld == <<"h", "e", "l", "l", "o", " ", "w", "o", "r", "l", "d">>

HelloOrld == <<"h", "e", "l", "l", "o", " ", "o", "r", "l", "d">>

\* A persisted request whose url is "hello world".
RequestHello == [name |-> "hello", url |-> HelloWorld, body |-> <<>>]

\* BlinkState::new with a configuration that holds this request and no override.
InitWord ==
    /\ overrides = <<>>
    /\ focus_area = "SidePanel"
    /\ should_quit = FALSE
    /\ \E vim_mode \in BOOLEAN :
          /\ url_input = URLInputNew(vim_mode)
          /\ editor = EditorNew(vim_mode)
          /\ side_panel = SidePanelNew(<<RequestHello>>, vim_mode)
          /\ config = BlinkConfig(<<RequestHello>>, <<>>, vim_mode)
          /\ blink_toml = TomlFile(BlinkConfig(<<RequestHello>>, <<>>, vim_mode))
    /\ config_watcher_rx = [queue |-> <<>>, connected |-> TRUE]
    /\ run_result = NoError

\* The key events of this specification while URLInput is focused.
WordKeys == {Plain(k) : k \in {"0", "w", "x", "h", "l", "v", "Esc"}}

\* Enter loads the request and focuses the Editor, Tab walks on to URLInput, and the
\* keys of WordKeys follow.
NextWord ==
    \/ focus_area = "SidePanel" /\ \E key \in {Plain("Enter"), Plain("Tab")} : KeyPress(key)
    \/ focus_area = "Editor" /\ KeyPress(Plain("Tab"))
    \/ focus_area = "URLInput" /\ \E key \in WordKeys : KeyPress(key)

SpecWord == InitWord /\ [][NextWord]_vars

\* The commands the key resolves to in the application state S.
Resolved(S, key) == handle_event(key, S.focus_area, key_bindings, event_mode(S))

\* The application state S after the key event.
Pressed(S, key) == DispatchAll(S, Resolved(S, key))

\* C26: with the default table, URLInput in Normal mode holding "hello world" with
\* the cursor at column 0: 'w' resolves to MoveCursorRightByWord and moves the cursor
\* to column 6 of the unchanged text; then 'x' resolves to DeleteForward and gives
\* "hello orld" with the cursor still at column 6.
C26_WordForwardThenDeleteForward ==
    (/\ focus_area = "URLInput"
     /\ url_input.mode = "Normal"
     /\ url_input.text_area.text = HelloWorld
     /\ url_input.text_area.cursor = 0
     /\ overrides = <<>>) =>
        /\ Resolved(Current, Plain("w")) = <<Cmd("MoveCursorRightByWord")>>
        /\ Pressed(Current, Plain("w")).url_input.text_area.text = HelloWorld
        /\ Pressed(Current, Plain("w")).url_input.text_area.cursor = 6
        /\ Resolved(Pressed(Current, Plain("w")), Plain("x")) = <<Cmd("DeleteForward")>>
        /\ Pressed(Pressed(Current, Plain("w")), Plain("x")).url_input.text_area.text = HelloOrld
        /\ Pressed(Pressed(Current, Plain("w")), Plain("x")).url_input.text_area.cursor = 6

\* The scenario has run: URLInput, in Normal mode, holds "hello orld" with the cursor
\* at column 6 and the one deletion recorded after the load.
C26_Witness ==
    /\ focus_area = "URLInput"
    /\ url_input.mode = "Normal"
    /\ url_input.text_area.text = HelloOrld
    /\ url_input.text_area.cursor = 6
    /\ url_input.text_area.history.edits[2].kind = "delete"
    /\ url_input.text_area.history.edits[2].str = <<"w">>
-----------------------------------------------------------------------------
(* InsertChar and DeleteBackward on the Editor *)

\* The commands this specification hands to the match of handle_events while the
\* Editor is focused.
TypeCommands == {InsertChar("a"), InsertChar("b"), Cmd("DeleteBackward")}

\* One iteration of BlinkState::run in which handle_event returned the command.
Command(command) == Iterate(Dispatch(Current, command))

\* Tab and i bring the Editor to Insert mode; the commands of TypeCommands follow.
NextType ==
    \/ \E key \in {Plain("Tab"), Plain("i"), Plain("Esc"), Plain("Enter")} : KeyPress(key)
    \/ focus_area = "Editor" /\ \E command \in TypeCommands : Command(command)

SpecType == Init /\ [][NextType]_vars

\* The Editor after the commands are dispatched in order.
EditorAfter(commands) == DispatchAll(Current, commands).editor

\* The offset of the Editor's cursor in its content.
CursorOffset == line_to_char(editor.content, editor.cursor_y) + editor.cursor_x

\* C27: with the Editor focused in Insert mode, on an empty buffer InsertChar('a')
\* then InsertChar('b') yields "ab" with the cursor at (0,2) and a following
\* DeleteBackward yields "a" with the cursor at (0,1); on any buffer InsertChar puts
\* its character at the cursor, keeps what was before and after it and advances the
\* column by one, and DeleteBackward at a column > 0 removes the character before the
\* cursor and retreats the column by one; both leave the line of the cursor as it is.
C27_InsertAndBackspace ==
    (focus_area = "Editor" /\ editor.mode = "Insert") =>
        /\ (editor.content = <<>> /\ editor.cursor_x = 0 /\ editor.cursor_y = 0) =>
              /\ EditorAfter(<<InsertChar("a"), InsertChar("b")>>).content = <<"a", "b">>
              /\ EditorAfter(<<InsertChar("a"), InsertChar("b")>>).cursor_x = 2
              /\ EditorAfter(<<InsertChar("a"), InsertChar("b")>>).cursor_y = 0
              /\ EditorAfter(<<InsertChar("a"), InsertChar("b"),
                               Cmd("DeleteBackward")>>).content = <<"a">>
              /\ EditorAfter(<<InsertChar("a"), InsertChar("b"),
                               Cmd("DeleteBackward")>>).cursor_x = 1
              /\ EditorAfter(<<InsertChar("a"), InsertChar("b"),
                               Cmd("DeleteBackward")>>).cursor_y = 0
        /\ \A c \in {"a", "b"} :
              /\ Len(EditorAfter(<<InsertChar(c)>>).content) = Len(editor.content) + 1
              /\ EditorAfter(<<InsertChar(c)>>).content[CursorOffset + 1] = c
              /\ SubSeq(EditorAfter(<<InsertChar(c)>>).content, 1, CursorOffset) =
                    SubSeq(editor.content, 1, CursorOffset)
              /\ SubSeq(EditorAfter(<<InsertChar(c)>>).content, CursorOffset + 2,
                        Len(editor.content) + 1) =
                    SubSeq(editor.content, CursorOffset + 1, Len(editor.content))
              /\ EditorAfter(<<InsertChar(c)>>).cursor_x = editor.cursor_x + 1
              /\ EditorAfter(<<InsertChar(c)>>).cursor_y = editor.cursor_y
        /\ editor.cursor_x > 0 =>
              /\ Len(EditorAfter(<<Cmd("DeleteBackward")>>).content) = Len(editor.content) - 1
              /\ SubSeq(EditorAfter(<<Cmd("DeleteBackward")>>).content, 1, CursorOffset - 1) =
                    SubSeq(editor.content, 1, CursorOffset - 1)
              /\ SubSeq(EditorAfter(<<Cmd("DeleteBackward")>>).content, CursorOffset,
                        Len(editor.content) - 1) =
                    SubSeq(editor.content, CursorOffset + 1, Len(editor.content))
              /\ EditorAfter(<<Cmd("DeleteBackward")>>).cursor_x = editor.cursor_x - 1
              /\ EditorAfter(<<Cmd("DeleteBackward")>>).cursor_y = editor.cursor_y

\* The scenario has run: the Editor, focused in Insert mode, holds "a" with the
\* cursor at (0,1).
C27_Witness ==
    /\ focus_area = "Editor"
    /\ editor.mode = "Insert"
    /\ editor.content = <<"a">>
    /\ editor.cursor_x = 1
    /\ editor.cursor_y = 0
-----------------------------------------------------------------------------
(* The Insert-mode bindings when vim emulation is off *)

\* The modes of the regions that were constructed with vim_mode = false.
VimOffModes ==
    {region.mode : region \in {r \in {side_panel, editor, url_input} : ~r.vim_mode}}

\* C28: for each region constructed with vim_mode = false and each chord with a
\* binding registered for Insert mode, get_command called with the region's current
\* mode returns the Insert-mode command of the chord.
C28_InsertBindingsValidWhenVimOff ==
    \A chord \in DOMAIN key_bindings :
        get_command(key_bindings, chord, "Insert") # None =>
            \A mode \in VimOffModes :
                get_command(key_bindings, chord, mode) =
                    get_command(key_bindings, chord, "Insert")
-----------------------------------------------------------------------------
(* The mode name of an override *)

\* The mode each mode name of a KeybindingConfig stands for.
ModeNamed ==
    [name \in {"normal", "insert", "visual", "any"} |->
        CASE name = "normal" -> "Normal"
          [] name = "insert" -> "Insert"
          [] name = "visual" -> "Visual"
          [] name = "any" -> "Any"]

\* C29: a binding that add_bindings_from_config added for an override whose mode name
\* is "normal", "insert", "visual" or "any" (the default of an omitted mode) is
\* registered for Normal, Insert, Visual or Any respectively.
C29_ModeNameSelectsMode ==
    \A i \in DOMAIN overrides :
        (overrides[i][4] # NoEntry /\ overrides[i][4].mode \in DOMAIN ModeNamed) =>
            overrides[i][3] = ModeNamed[overrides[i][4].mode]
-----------------------------------------------------------------------------
(* The keybinding table across reloads *)

\* The overrides of the configuration BlinkState::new is given in this specification.
StartupOverrides == <<CfgZVisual>>

\* BlinkState::new with a configuration that holds StartupOverrides: the table is the
\* defaults with these overrides added.
InitRebuild ==
    /\ overrides = add_bindings_from_config(default_keybindings, StartupOverrides).added
    /\ focus_area = "SidePanel"
    /\ should_quit = FALSE
    /\ \E vim_mode \in BOOLEAN, requests \in RequestLists :
          /\ url_input = URLInputNew(vim_mode)
          /\ editor = EditorNew(vim_mode)
          /\ side_panel = SidePanelNew(requests, vim_mode)
          /\ config = BlinkConfig(requests, StartupOverrides, vim_mode)
          /\ blink_toml = TomlFile(BlinkConfig(requests, StartupOverrides, vim_mode))
    /\ config_watcher_rx = [queue |-> <<>>, connected |-> TRUE]
    /\ run_result = NoError

SpecRebuild == InitRebuild /\ [][NextReload]_vars

\* The table built from the defaults and the overrides of one configuration.
Rebuilt(keybindings) ==
    IF keybindings # <<>>
    THEN add_bindings_from_config(default_keybindings, keybindings).bindings
    ELSE default_keybindings

\* C30: while run loops, and so after every successful reload, the keybinding table
\* is the default table overlaid with the overrides of the stored configuration, the
\* one loaded last, and of no other: a chord resolves as it does in that table, so a
\* binding that only an earlier configuration contributed does not resolve.
C30_TableRebuiltOnReload ==
    run_result = NoError =>
        /\ key_bindings = Rebuilt(config.keybindings)
        /\ \A chord \in TableChords, mode \in ExactModes :
              get_command(key_bindings, chord, mode) =
                 get_command(Rebuilt(config.keybindings), chord, mode)

\* A reload has succeeded with a configuration that holds a request and no override
\* for 'z': the startup override of 'z' no longer resolves.
C30_Witness ==
    /\ run_result = NoError
    /\ config.local_requests # <<>>
    /\ \A i \in DOMAIN config.keybindings : config.keybindings[i].key # "z"
    /\ get_command(key_bindings, Plain("z"), "Insert") = None
-----------------------------------------------------------------------------
(* The mode changes of URLInput and of the Editor under Esc, i and v *)

\* The key events of this specification.
ModeKeys == {Plain(k) : k \in {"Tab", "Esc", "i", "v", "Left"}}

NextMode == \E key \in ModeKeys : KeyPress(key)

SpecMode == Init /\ [][NextMode]_vars

\* The mode of the focused region once the key event Esc is handled.
ModeAfterEsc == event_mode(AfterKey(Plain("Esc")))

\* C31: with vim emulation on, URLInput, the Editor and the SidePanel are constructed
\* in Normal mode, and whenever URLInput or the Editor is focused in Insert or Visual
\* mode the chord Esc resolves to EnterNormalMode and leaves that region in Normal mode.
C31_EscReturnsToNormal ==
    /\ URLInputNew(TRUE).mode = "Normal"
    /\ EditorNew(TRUE).mode = "Normal"
    /\ \A requests \in RequestLists : SidePanelNew(requests, TRUE).mode = "Normal"
    /\ (/\ config.vim_mode
        /\ focus_area \in {"URLInput", "Editor"}
        /\ event_mode(Current) \in {"Insert", "Visual"})
       => /\ handle_event(Plain("Esc"), focus_area, key_bindings, event_mode(Current))
                = <<Cmd("EnterNormalMode")>>
          /\ ModeAfterEsc = "Normal"

\* Esc has brought URLInput back from Visual mode, which dropped the selection, and
\* the Editor, focused now, is in Visual mode.
C31_Witness ==
    /\ config.vim_mode
    /\ focus_area = "Editor"
    /\ editor.mode = "Visual"
    /\ url_input.mode = "Normal"
    /\ url_input.text_area.cursor < Len(UrlPrefix)
    /\ ~is_selecting(url_input.text_area)
-----------------------------------------------------------------------------
(* The line-bound commands that end in Insert mode, on URLInput and on the SidePanel *)

\* The chords the default table binds, in Normal mode, to MoveCusorBOLIntoInsertMode,
\* MoveCusorEOLIntoInsertMode and DeleteUntilEOLIntoInsertMode.
IntoInsertKeys == {Shift("I"), Shift("A"), Shift("C")}

\* While the SidePanel or URLInput is focused the three chords are pressed, and Esc
\* and Left on URLInput; Tab moves the focus.
NextLine ==
    \/ KeyPress(Plain("Tab"))
    \/ focus_area # "Editor" /\ \E key \in IntoInsertKeys : KeyPress(key)
    \/ focus_area = "URLInput" /\ \E key \in {Plain("Esc"), Plain("Left")} : KeyPress(key)

SpecLine == Init /\ [][NextLine]_vars

\* URLInput once the key event is handled.
UrlAfterKey(key) == AfterKey(key).url_input

\* The key event changes nothing but URLInput.
OnlyUrlChanges(key) == AfterKey(key) = [Current EXCEPT !.url_input = UrlAfterKey(key)]

-----------------------------------------------------------------------------
(* Enter in the Editor *)

\* The Editor once the key event Enter is handled.
EditorAfterEnter == AfterKey(Plain("Enter")).editor

\* C33: with the Editor focused in Insert mode, Enter inserts a line break at the
\* cursor, and afterwards the line of the cursor is one further down and its column
\* is no more than the length of that line.
C33_EnterMovesIntoNewLine ==
    (focus_area = "Editor" /\ editor.mode = "Insert") =>
        /\ Len(EditorAfterEnter.content) = Len(editor.content) + 1
        /\ EditorAfterEnter.content[CursorOffset + 1] = NL
        /\ EditorAfterEnter.cursor_y = editor.cursor_y + 1
        /\ EditorAfterEnter.cursor_x
              <= line_len_chars(EditorAfterEnter.content, EditorAfterEnter.cursor_y)
-----------------------------------------------------------------------------
(* The cursor motions of the Editor *)

\* The key events of this specification: Enter and the arrows act on the Editor in
\* Insert mode.
MotionKeys ==
    {Plain(k) : k \in {"Tab", "Enter", "i", "Esc", "Left", "Right", "Up", "Down"}}

NextMotion == \E key \in MotionKeys : KeyPress(key)

SpecMotion == Init /\ [][NextMotion]_vars

\* The number of characters of line y of the content, its line break not counted.
LineLength(content, y) ==
    IF y + 1 < len_lines(content) THEN line_len_chars(content, y) - 1
    ELSE line_len_chars(content, y)

\* The position of the Editor's cursor after the command: its line and its column.
CursorAfter(command) ==
    <<Dispatch(Current, command).editor.cursor_y, Dispatch(Current, command).editor.cursor_x>>

\* C34: in the Editor MoveCursorLeft at column 0 of a line other than the first moves
\* to the end of the line above, MoveCursorRight at the end of a line other than the
\* last moves to column 0 of the line below, MoveCursorLeft at (0,0) and MoveCursorRight
\* at the end of the last line leave the cursor where it is, and MoveCursorUp and
\* MoveCursorDown keep the column unless it exceeds the length of the line they move
\* to, which it then becomes.
C34_CharMotionWrapsAndClamps ==
    (focus_area = "Editor" /\ editor.cursor_y < len_lines(editor.content)) =>
        /\ (editor.cursor_x = 0 /\ editor.cursor_y > 0) =>
              CursorAfter(Cmd("MoveCursorLeft"))
                  = <<editor.cursor_y - 1, LineLength(editor.content, editor.cursor_y - 1)>>
        /\ (editor.cursor_x = 0 /\ editor.cursor_y = 0) =>
              CursorAfter(Cmd("MoveCursorLeft")) = <<0, 0>>
        /\ editor.cursor_x = LineLength(editor.content, editor.cursor_y) =>
              CursorAfter(Cmd("MoveCursorRight"))
                  = IF editor.cursor_y + 1 < len_lines(editor.content)
                    THEN <<editor.cursor_y + 1, 0>>
                    ELSE <<editor.cursor_y, editor.cursor_x>>
        /\ editor.cursor_y > 0 =>
              CursorAfter(Cmd("MoveCursorUp"))
                  = <<editor.cursor_y - 1,
                      Min(editor.cursor_x, LineLength(editor.content, editor.cursor_y - 1))>>
        /\ editor.cursor_y + 1 < len_lines(editor.content) =>
              CursorAfter(Cmd("MoveCursorDown"))
                  = <<editor.cursor_y + 1,
                      Min(editor.cursor_x, LineLength(editor.content, editor.cursor_y + 1))>>
-----------------------------------------------------------------------------
(* The SidePanel's selection under reloads that change the request list *)

\* What ./blink.toml is rewritten to: one request, or the three of InitNav.
ShrinkFiles ==
    {TomlFile(BlinkConfig(requests, <<>>, TRUE)) :
        requests \in {<<Request1>>, <<Request1, Request2, Request3>>}}

\* j and k move the selection; ./blink.toml is rewritten and reloaded.
NextShrink ==
    \/ \E key \in {Plain("j"), Plain("k")} : KeyPress(key)
    \/ Idle
    \/ \E file \in ShrinkFiles, event \in ModifyEvents : WriteConfig(file, event)

SpecShrink == InitNav /\ [][NextShrink]_vars

\* C35: whenever the request list of the SidePanel is not empty, selected_request is
\* an index into it.
C35_SelectedIndexValid ==
    side_panel.requests # <<>> => side_panel.selected_request < Len(side_panel.requests)
-----------------------------------------------------------------------------
(* The vim-emulation setting across a reload *)

\* The application state the step leaves.
Reloaded == AppState(focus_area', should_quit', url_input', editor', side_panel')

\* A step in which reload_config succeeded with another vim_mode than the stored one.
VimModeReloaded == config'.vim_mode # config.vim_mode /\ run_result' = NoError

\* C36: after a reload that changes vim_mode, URLInput, the Editor and the SidePanel
\* hold the new vim_mode, the mode of each is Any exactly when it is false, and when
\* it is true EnterNormalMode brings URLInput and the Editor, once focused, to Normal
\* mode.
C36_ReloadKeepsVimModeConsistent ==
    [][VimModeReloaded =>
          /\ url_input'.vim_mode = config'.vim_mode
          /\ editor'.vim_mode = config'.vim_mode
          /\ side_panel'.vim_mode = config'.vim_mode
          /\ (url_input'.mode = "Any") <=> ~config'.vim_mode
          /\ (editor'.mode = "Any") <=> ~config'.vim_mode
          /\ (side_panel'.mode = "Any") <=> ~config'.vim_mode
          /\ config'.vim_mode =>
                \A focus \in {"URLInput", "Editor"} :
                    event_mode(Dispatch([Reloaded EXCEPT !.focus_area = focus],
                                        Cmd("EnterNormalMode"))) = "Normal"]_vars
-----------------------------------------------------------------------------
(* Quit and the end of BlinkState::run *)

\* A step whose iteration dispatched Quit: nothing else sets should_quit.
QuitDispatched == ~should_quit /\ should_quit'

\* run has left its loop through the break, called renderer.restore() and returned
\* Ok(()); an error of check_config_updates returns from inside the loop instead.
TerminalRestored == should_quit /\ run_result = NoError

\* Once should_quit is set it stays set and no further iteration acts on the
\* application: no later event is dispatched and no later notification is taken.
NothingAfterQuit ==
    should_quit => UNCHANGED <<focus_area, should_quit, url_input, editor, side_panel,
                               overrides, config, config_watcher_rx, run_result>>

-----------------------------------------------------------------------------
(* Plain characters in Insert mode *)

\* The characters C38 names.
NamedCharacters == {"q", "i", "v", "h", "j", "k", "l"}

\* The commands handle_event returns for the plain character c in Insert mode.
InsertModeCommands(c) == handle_event(Plain(c), focus_area, key_bindings, "Insert")

\* C38: the table resolves no character chord without ctrl and alt in Insert mode,
\* and whenever the focused region is in Insert mode a key event of a character C38
\* names yields no command but the insertion of that character.
C38_PlainCharsTypeInInsert ==
    /\ \A c \in OneCharStrings, shift \in BOOLEAN :
          get_command(key_bindings, Input(c, FALSE, FALSE, shift), "Insert") = None
    /\ event_mode(Current) = "Insert" =>
          \A c \in NamedCharacters :
              \A i \in 1..Len(InsertModeCommands(c)) : InsertModeCommands(c)[i] = InsertChar(c)
-----------------------------------------------------------------------------
(* open_in_editor when the external editor changes nothing *)

\* The external editor exits with success and has not written the temporary file.
ExitsUnmodified == [kind |-> "unsaved", body |-> <<>>]

\* The external editor exits with success and the file holds what open_in_editor wrote
\* to it: the lines of the buffer joined by line breaks.
ExitsWithTextWritten == [kind |-> "saved", body |-> editor.content]

\* C39: with the Editor focused, open_in_editor leaves the content of the Editor as it
\* is, without a panic, when the external editor exits with success and has not
\* modified the file, and reading back the text written out gives the buffer again.
C39_UnmodifiedFileKeepsBuffer ==
    focus_area = "Editor" =>
        /\ open_in_editor(Current, ExitsUnmodified).panic = NoPanic
        /\ open_in_editor(Current, ExitsUnmodified).app.editor.content = editor.content
        /\ open_in_editor(Current, ExitsWithTextWritten).app.editor.content = editor.content
-----------------------------------------------------------------------------
(* DeleteBackward at the start of a line of the Editor *)

\* C40: with the Editor focused in Insert mode and the cursor at column 0 of a line
\* other than the first, DeleteBackward removes the line break before the cursor and
\* nothing else, and leaves the cursor on the line above at the column equal to the
\* length that line had.
C40_BackspaceJoinsLines ==
    (/\ focus_area = "Editor"
     /\ editor.mode = "Insert"
     /\ editor.cursor_x = 0
     /\ editor.cursor_y > 0
     /\ editor.cursor_y < len_lines(editor.content)) =>
        /\ EditorAfter(<<Cmd("DeleteBackward")>>).content
              = rope_remove(editor.content, CursorOffset - 1)
        /\ EditorAfter(<<Cmd("DeleteBackward")>>).cursor_y = editor.cursor_y - 1
        /\ EditorAfter(<<Cmd("DeleteBackward")>>).cursor_x
              = LineLength(editor.content, editor.cursor_y - 1)

====
